---- MODULE Spec2Model ----
(***************************************************************************)
(* Model of package winsvc (itcomusic/winsvc): the service lifecycle       *)
(* coordinator of winsvc.go.                                               *)
(*                                                                         *)
(* Three threads of control are modelled:                                  *)
(*   - the caller of Init/run (runPc),                                     *)
(*   - manager.Execute, called by the service host inside svc.Run (execPc),*)
(*   - the goroutine started by manager.runFuncWithNotify (wlPc).          *)
(* Every blocking point or observable effect of the code is one action.    *)
(* The service host (golang.org/x/sys/windows/svc) is the environment: it  *)
(* always receives a status sent on `changes`, and a ChangeRequest it      *)
(* hands over carries the last status it received as CurrentStatus.        *)
(* Time is counted in ticks of the timer armed by time.After.              *)
(* The option-based variant and the Servicer variant of the package (state *)
(* in the records opt and srv) and the lifecycle operations (record adm)    *)
(* are alternatives of the same model, chosen in Init by `variant`.         *)
(***************************************************************************)
EXTENDS Integers, Sequences, FiniteSets, TLC

\* ---------------------------------------------------------------- bounds
\* largest grace period (in timer ticks) a configuration or the registry gives
MaxTimeout == 2
\* largest number of control requests other than Stop/Shutdown the host sends
MaxRequests == 2
\* largest number of calls of Init in one process
MaxInits == 2
\* polling intervals of stopWithWait in one timer tick
PollsPerTick == 2

\* ------------------------------------------------------------- constants
\* process is running, os.Exit has not been called
NoExit == [exited |-> FALSE, code |-> 0]
\* os.Exit(n) has been called
Exit(n) == [exited |-> TRUE, code |-> n]
\* no value returned yet
None == "none"
\* Execute has not returned yet
NoResult == <<FALSE, -1>>
\* the nil error
Nil == "nil"
\* errors.New("service was not initialized")
errSvcInit == "service was not initialized"
\* an error returned by the workload
errWorkload == "workload error"
\* an error returned by svc.Run when the dispatcher cannot be started
errDispatcher == "dispatcher error"

\* svc.AcceptStop | svc.AcceptShutdown
cmdAccepted == {"Stop", "Shutdown"}

\* svc.Cmd values the host can hand to Execute ("Pause" stands for every
\* command the switch of Execute has no case for)
Cmds == {"Interrogate", "Stop", "Shutdown", "Pause"}

\* svc.State values in their order
StateRank(s) ==
  CASE s = "StartPending" -> 1
    [] s = "Running"      -> 2
    [] s = "StopPending"  -> 3
    [] s = "Stopped"      -> 4

\* svc.Status{State: s, Accepts: a}
Status(s, a) == [State |-> s, Accepts |-> a]

\* ------------------------------------------------- the registry default
\* milliseconds in one tick of the model's timers
TickMs == 10000

\* time.Millisecond * time.Duration(v), in timer ticks
Milliseconds(v) == v \div TickMs

\* the decimal digits
Digits == <<"0", "1", "2", "3", "4", "5", "6", "7", "8", "9">>

IsDigit(ch) == \E d \in 1..10 : Digits[d] = ch

DigitValue(ch) == (CHOOSE d \in 1..10 : Digits[d] = ch) - 1

\* the decimal string of n >= 0, as the registry stores it
RECURSIVE FormatInt(_)
FormatInt(n) ==
  IF n < 10 THEN <<Digits[n + 1]>>
            ELSE Append(FormatInt(n \div 10), Digits[(n % 10) + 1])

RECURSIVE ParseDigits(_, _)
ParseDigits(str, acc) ==
  IF str = <<>> THEN acc
                ELSE ParseDigits(Tail(str), acc * 10 + DigitValue(Head(str)))

\* strconv.Atoi: an optional sign and at least one digit, nothing else
Atoi(str) ==
  LET signed == Len(str) > 0 /\ Head(str) \in {"+", "-"}
      body   == IF signed THEN Tail(str) ELSE str
  IN  IF body = <<>> \/ \E i \in 1..Len(body) : ~IsDigit(body[i])
        THEN [err |-> TRUE, v |-> 0]
        ELSE [err |-> FALSE,
              v |-> IF signed /\ Head(str) = "-"
                      THEN 0 - ParseDigits(body, 0)
                      ELSE ParseDigits(body, 0)]

\* What the registry of the host can hold: the key
\* SYSTEM\CurrentControlSet\Control cannot be opened, the value
\* WaitToKillServiceTimeout is missing, it is not a number, or it is a number
\* of milliseconds.
NoRegistry == [key |-> FALSE, found |-> FALSE, sv |-> <<>>]

RegistryValues ==
  {NoRegistry,
   [key |-> TRUE, found |-> FALSE, sv |-> <<>>],
   [key |-> TRUE, found |-> TRUE, sv |-> <<"2", "0", "s">>]}
  \cup {[key |-> TRUE, found |-> TRUE, sv |-> FormatInt(TickMs * n)] :
          n \in 1..MaxTimeout}

\* getStopTimeout: the registry value in milliseconds, 20000 ms when the key
\* or the value cannot be read or the value is not a number
getStopTimeout(reg) ==
  LET defaultTimeout == Milliseconds(20000)
  IN  IF ~reg.key THEN defaultTimeout
      ELSE IF ~reg.found THEN defaultTimeout
      ELSE IF Atoi(reg.sv).err THEN defaultTimeout
      ELSE Milliseconds(Atoi(reg.sv).v)

VARIABLES
  interactive,      \* package variable interactive
  timeStopDefault,  \* package variable timeStopDefault (getStopTimeout())
  svcMan,           \* TRUE when svcMan # nil
  TimeoutStop,      \* svcMan.Config.TimeoutStop
  errRun,           \* svcMan.errRun.err (the outcome box)
  rwMutex,          \* svcMan.errRun.RWMutex: w writer holds it, r readers inside
  ctxSvc,           \* TRUE when svcMan.ctxSvc is cancelled (Done closed)
  finishRun,        \* TRUE when finishRun.Done() is closed
  runPc,            \* position of the caller in Init/run
  runRet,           \* value returned by run (and so by Init)
  errSvcRun,        \* value returned by svc.Run (local errRun of run)
  execPc,           \* position of manager.Execute
  execRet,          \* value returned by Execute
  c,                \* the ChangeRequest Execute took from r
  changes,          \* statuses Execute sent on changes, in order
  nReq,             \* number of requests other than Stop/Shutdown consumed
  stopConsumed,     \* Execute has taken a Stop or Shutdown request from r
  sig,              \* number of signals buffered in channel sig
  sigSent,          \* the OS has delivered its interrupt signal
  wlPc,             \* position of the workload goroutine
  wlResult,         \* value svcHandler returned
  wlCtxAtEnd,       \* ctxSvc at the moment svcHandler returned or panicked
  timer,            \* ticks elapsed on the timer armed by time.After
  timedOut,         \* the grace period timer has fired
  procExit,         \* NoExit while the process runs, Exit(n) after os.Exit(n)
  launches,         \* number of goroutines runFuncWithNotify has started
  boxWrites,        \* number of assignments to errRun.err by setError
  finishCount,      \* number of calls of cancelRun (completion signals)
  cancels,          \* number of calls of svcMan.cancelSvc
  earlyRead,        \* getError has read errRun.err while finishRun was open
  inits,            \* number of calls of Init
  registry,         \* what the registry gives for WaitToKillServiceTimeout
  config,           \* the Config passed to Init
  adm,              \* state of a lifecycle operation and of the service manager
  variant,          \* which source variant of the package runs
  srv,              \* state of the Servicer variant (Execute, sendCmdStop)
  opt               \* state of the option-based variant (Run, start, manager)

vars == <<interactive, timeStopDefault, svcMan, TimeoutStop, errRun, rwMutex, ctxSvc,
          finishRun, runPc, runRet, errSvcRun, execPc, execRet, c, changes,
          nReq, stopConsumed, sig, sigSent, wlPc, wlResult, wlCtxAtEnd,
          timer, timedOut, procExit, launches, boxWrites, finishCount,
          cancels, earlyRead, inits, registry, config, adm, variant, opt,
          srv>>

histVars == <<launches, boxWrites, finishCount, cancels, earlyRead>>
optVars  == <<variant, opt>>
\* everything but opt
winVars  == <<interactive, timeStopDefault, svcMan, TimeoutStop, errRun, rwMutex, ctxSvc,
              finishRun, runPc, runRet, errSvcRun, execPc, execRet, c,
              changes, nReq, stopConsumed, sig, sigSent, wlPc, wlResult,
              wlCtxAtEnd, timer, timedOut, procExit, launches, boxWrites,
              finishCount, cancels, earlyRead, inits, registry, config, adm,
              variant, srv>>
\* everything but adm
admFrame == <<interactive, timeStopDefault, svcMan, TimeoutStop, errRun, rwMutex, ctxSvc,
              finishRun, runPc, runRet, errSvcRun, execPc, execRet, c,
              changes, nReq, stopConsumed, sig, sigSent, wlPc, wlResult,
              wlCtxAtEnd, timer, timedOut, procExit, launches, boxWrites,
              finishCount, cancels, earlyRead, inits, registry, config,
              variant, opt, srv>>
runVars  == <<runPc, runRet, errSvcRun>>
execVars == <<execPc, execRet, c, changes, nReq, stopConsumed>>
wlVars   == <<wlPc, wlResult, wlCtxAtEnd>>
cfgVars  == <<interactive, timeStopDefault, svcMan, TimeoutStop>>

Alive == procExit = NoExit

\* the zero value of sync.RWMutex: no writer, no reader
Unlocked == [w |-> FALSE, r |-> 0]

\* The option-based variant before Run is called: sync.Once is fresh, neither
\* caller has called Run, no manager exists.
OptInit ==
  [runOnce |-> "fresh", callers |-> <<"idle", "idle">>, pc |-> "idle",
   disablePanic |-> FALSE, timeout |-> 0, ctxSvc |-> FALSE,
   finishRun |-> FALSE, wlPc |-> "notStarted", launches |-> 0,
   execRet |-> NoResult, changes |-> <<>>, c |-> None, nReq |-> 0,
   stopConsumed |-> FALSE, sig |-> 0, sigSent |-> FALSE, timer |-> 0,
   starts |-> 0, panicked |-> FALSE, panicValue |-> None,
   crashed |-> FALSE]

\* the record srv while another variant runs
SrvUnused ==
  [pc |-> "unused", forceStop |-> FALSE, finishRun |-> FALSE,
   ctxSvc |-> FALSE, wlPc |-> "notStarted", wlResult |-> None,
   errRun |-> Nil, TimeoutStop |-> 0, timer |-> 0, timedOut |-> FALSE,
   changes |-> <<>>, c |-> [Cmd |-> None, CurrentStatus |-> None],
   nReq |-> 0, stopConsumed |-> FALSE, execRet |-> NoResult,
   launches |-> 0, sendCmdStops |-> 0, controls |-> 0, fault |-> None,
   queued |-> FALSE, exited |-> FALSE]

\* The Servicer variant in managed mode after Init(service, c) and Run():
\* svcMan holds the grace period t, ctxSvc is open, and svc.Run is calling
\* svcMan.Execute
SrvStart(t) == [SrvUnused EXCEPT !.pc = "sendStartPending", !.TimeoutStop = t]

\* what the service manager holds when the operation is called: no service,
\* or the service, stopped or running
ScmInit == {<<FALSE, "Stopped">>, <<TRUE, "Stopped">>, <<TRUE, "Running">>}

\* adm in the variants that call no lifecycle operation
AdmUnused ==
  [pc |-> "unused", op |-> None, ret |-> None, svcMan |-> FALSE,
   TimeoutStop |-> 0, RestartOnFailure |-> FALSE, installed |-> FALSE,
   svcState |-> "Stopped", status |-> None, elapsed |-> 0, tick |-> FALSE,
   expired |-> FALSE, scmCalls |-> 0, creates |-> 0, deletes |-> 0,
   configs |-> 0, controls |-> 0, queries |-> 0, starts |-> 0,
   startSeen |-> None, fault |-> FALSE]

\* adm before the operation is called: Init has built svcMan from a Config
\* with c.TimeoutStop = t and RestartOnFailure set or not, or it has not been
\* called; the service is installed in state st or is not installed
AdmStart(init, t, rof, inst, st) ==
  [AdmUnused EXCEPT !.pc = "idle",
                    !.svcMan = init,
                    !.TimeoutStop = t,
                    !.RestartOnFailure = rof,
                    !.installed = inst,
                    !.svcState = st]

\* ------------------------------------------------------------------ init
\* State after the package init functions: the session kind and the registry
\* default are known, no service has been initialised.  The option-based
\* variant reads no registry and has no timeStopDefault.
Init ==
  /\ interactive \in BOOLEAN
  /\ variant \in {"init", "option", "admin", "servicer"}
  /\ variant = "admin" => interactive
  /\ variant = "servicer" => ~interactive
  /\ registry \in IF variant \in {"option", "servicer"} THEN {NoRegistry}
                                                        ELSE RegistryValues
  /\ timeStopDefault = IF variant = "option" THEN 0
                                             ELSE getStopTimeout(registry)
  /\ config = [TimeoutStop |-> 0]
  /\ adm \in IF variant # "admin" THEN {AdmUnused}
            ELSE {AdmStart(FALSE, 0, FALSE, scm[1], scm[2]) :
                    scm \in ScmInit}
                 \cup
                 {AdmStart(TRUE, IF t = 0 THEN timeStopDefault ELSE t,
                           rof, scm[1], scm[2]) :
                    t \in 0..MaxTimeout, rof \in BOOLEAN, scm \in ScmInit}
  /\ svcMan = FALSE
  /\ TimeoutStop = 0
  /\ errRun = Nil
  /\ rwMutex = Unlocked
  /\ ctxSvc = FALSE
  /\ finishRun = FALSE
  /\ runPc = IF variant = "init" THEN "init" ELSE "unused"
  /\ runRet = None
  /\ errSvcRun = Nil
  /\ execPc = "idle"
  /\ execRet = NoResult
  /\ c = [Cmd |-> None, CurrentStatus |-> None]
  /\ changes = <<>>
  /\ nReq = 0
  /\ stopConsumed = FALSE
  /\ sig = 0
  /\ sigSent = FALSE
  /\ wlPc = "notStarted"
  /\ wlResult = None
  /\ wlCtxAtEnd = FALSE
  /\ timer = 0
  /\ timedOut = FALSE
  /\ procExit = NoExit
  /\ launches = 0
  /\ boxWrites = 0
  /\ finishCount = 0
  /\ cancels = 0
  /\ earlyRead = FALSE
  /\ inits = 0
  /\ opt = OptInit
  /\ srv \in IF variant # "servicer" THEN {SrvUnused}
            ELSE {SrvStart(IF t = 0 THEN timeStopDefault ELSE t) :
                    t \in 0..MaxTimeout}

\* an Init that takes the host default whatever the Config says
WinsvcInitOverrides ==
  /\ Alive
  /\ \/ runPc = "init"
     \/ /\ runPc = "returned" /\ svcMan /\ interactive
        /\ wlPc = "done"
        /\ inits < MaxInits
  /\ \E t \in 0..MaxTimeout :
       /\ config' = [TimeoutStop |-> t]
       /\ TimeoutStop' = timeStopDefault
  /\ svcMan' = TRUE
  /\ errRun' = Nil
  /\ rwMutex' = Unlocked
  /\ runPc' = "run"
  /\ inits' = inits + 1
  /\ runRet' = None
  /\ ctxSvc' = FALSE /\ finishRun' = FALSE
  /\ sig' = 0 /\ sigSent' = FALSE
  /\ wlPc' = "notStarted" /\ wlResult' = None /\ wlCtxAtEnd' = FALSE
  /\ timer' = 0 /\ timedOut' = FALSE
  /\ boxWrites' = 0 /\ finishCount' = 0 /\ cancels' = 0
  /\ earlyRead' = FALSE
  /\ UNCHANGED <<optVars, srv, adm, registry, launches, interactive,
                 timeStopDefault, errSvcRun, execVars, procExit>>

\* ------------------------------------------------------------ Init / run
\* Init(c, CmdRun, run): fills in the default grace period, builds svcMan
\* with an empty outcome box, and calls run through runCmd.  Nothing keeps a
\* caller from calling Init again after it has returned; the calls modelled
\* are those made in interactive mode once the previous workload goroutine
\* has ended.  The context, the channels, the timer and the goroutine of the
\* previous call are then garbage, and the counters kept per manager start
\* again.
WinsvcInit ==
  /\ Alive
  /\ \/ runPc = "init"
     \/ /\ runPc = "returned" /\ svcMan /\ interactive
        /\ wlPc = "done"
        /\ inits < MaxInits
  /\ \E t \in 0..MaxTimeout :
       /\ config' = [TimeoutStop |-> t]
       /\ TimeoutStop' = IF t = 0 THEN timeStopDefault ELSE t
  /\ svcMan' = TRUE
  /\ errRun' = Nil
  /\ rwMutex' = Unlocked
  /\ runPc' = "run"
  /\ inits' = inits + 1
  /\ runRet' = None
  /\ ctxSvc' = FALSE /\ finishRun' = FALSE
  /\ sig' = 0 /\ sigSent' = FALSE
  /\ wlPc' = "notStarted" /\ wlResult' = None /\ wlCtxAtEnd' = FALSE
  /\ timer' = 0 /\ timedOut' = FALSE
  /\ boxWrites' = 0 /\ finishCount' = 0 /\ cancels' = 0
  /\ earlyRead' = FALSE
  /\ UNCHANGED <<optVars, srv, adm, registry, launches, interactive,
                 timeStopDefault, errSvcRun, execVars, procExit>>

\* run() called while svcMan == nil
RunNotInit ==
  /\ Alive /\ runPc = "init"
  /\ ~svcMan
  /\ runRet' = errSvcInit
  /\ runPc' = "returned"
  /\ UNCHANGED <<optVars, srv, adm, registry, config, inits, rwMutex, histVars, cfgVars, errRun, ctxSvc, finishRun, errSvcRun, execVars, sig,
                 sigSent, wlVars, timer, timedOut, procExit>>

\* run(): context.WithCancel, then the branch on interactive
RunStart ==
  /\ Alive /\ runPc = "run"
  /\ svcMan
  /\ ctxSvc' = FALSE
  /\ runPc' = IF interactive THEN "launch" ELSE "svcRun"
  /\ UNCHANGED <<optVars, srv, adm, registry, config, inits, rwMutex, histVars, cfgVars, errRun, finishRun, runRet, errSvcRun, execVars, sig,
                 sigSent, wlVars, timer, timedOut, procExit>>

\* ------------------------------------------------- the workload goroutine
\* go func() of runFuncWithNotify: the goroutine is created and svcHandler
\* starts to run under ctxSvc.
Launch ==
  /\ wlPc' = "running"
  /\ launches' = launches + 1
  /\ UNCHANGED <<wlResult, wlCtxAtEnd>>

\* a goroutine that raises the completion signal without storing the result
WorkloadReturnNotStored ==
  /\ Alive /\ wlPc = "running"
  /\ \E e \in {Nil, errWorkload} : wlResult' = e
  /\ wlCtxAtEnd' = ctxSvc
  /\ wlPc' = "cancelRun"
  /\ UNCHANGED <<optVars, srv, adm, registry, config, inits, rwMutex, histVars, cfgVars, errRun, ctxSvc, finishRun, runVars, execVars, sig,
                 sigSent, timer, timedOut, procExit>>

\* svcHandler returns e; the goroutine is about to call setError(e)
WorkloadReturn ==
  /\ Alive /\ wlPc = "running"
  /\ \E e \in {Nil, errWorkload} : wlResult' = e
  /\ wlCtxAtEnd' = ctxSvc
  /\ wlPc' = "setError"
  /\ UNCHANGED <<optVars, srv, adm, registry, config, inits, rwMutex, histVars, cfgVars, errRun, ctxSvc, finishRun, runVars, execVars, sig,
                 sigSent, timer, timedOut, procExit>>

\* svcHandler panics: the stack unwinds into the deferred recoverer, which
\* calls recover() and logs the panic value and the stack trace
WorkloadPanic ==
  /\ Alive /\ wlPc = "running"
  /\ wlResult' = "panic"
  /\ wlCtxAtEnd' = ctxSvc
  /\ wlPc' = "recoverer"
  /\ UNCHANGED <<optVars, srv, adm, registry, config, inits, rwMutex, histVars, cfgVars, errRun, ctxSvc, finishRun, runVars, execVars, sig,
                 sigSent, timer, timedOut, procExit>>

\* manager.setError, m.errRun.Lock() and m.errRun.err = err: Lock waits until
\* no reader and no writer is inside; nothing can look at the box between
\* the lock and the assignment, so the two are one step
setError ==
  /\ Alive /\ wlPc = "setError"
  /\ ~rwMutex.w /\ rwMutex.r = 0
  /\ rwMutex' = [rwMutex EXCEPT !.w = TRUE]
  /\ errRun' = wlResult
  /\ boxWrites' = boxWrites + 1
  /\ wlPc' = "setErrorUnlock"
  /\ UNCHANGED <<optVars, srv, adm, registry, config, inits, launches, finishCount, cancels, earlyRead, cfgVars, ctxSvc, finishRun, runVars, execVars, sig, sigSent,
                 wlResult, wlCtxAtEnd, timer, timedOut, procExit>>

\* manager.setError, the deferred m.errRun.Unlock(); the deferred recoverer
\* that follows finds recover() == nil and does nothing
setErrorUnlock ==
  /\ Alive /\ wlPc = "setErrorUnlock"
  /\ rwMutex' = [rwMutex EXCEPT !.w = FALSE]
  /\ wlPc' = "cancelRun"
  /\ UNCHANGED <<optVars, srv, adm, registry, config, inits, histVars, cfgVars, errRun, ctxSvc, finishRun, runVars, execVars, sig,
                 sigSent, wlResult, wlCtxAtEnd, timer, timedOut, procExit>>

\* a recoverer that only logs
RecovererNeverExits(done) == FALSE

\* a recoverer that exits on every panic
RecovererAlwaysExits(done) == TRUE

\* The select of manager.recoverer after a panic: TRUE when it takes the
\* default branch, os.Exit(2)
RecovererExits(done) == ~done

\* manager.recoverer after recover() # nil
recoverer ==
  /\ Alive /\ wlPc = "recoverer"
  /\ IF RecovererExits(ctxSvc)
       THEN /\ procExit' = Exit(2)
            /\ wlPc' = "exited"
       ELSE /\ procExit' = procExit
            /\ wlPc' = "cancelRun"
  /\ UNCHANGED <<optVars, srv, adm, registry, config, inits, rwMutex, histVars, cfgVars, errRun, ctxSvc, finishRun, runVars, execVars, sig,
                 sigSent, wlResult, wlCtxAtEnd, timer, timedOut>>

\* deferred cancelRun(): closes finishRun.Done()
cancelRun ==
  /\ Alive /\ wlPc = "cancelRun"
  /\ finishRun' = TRUE
  /\ finishCount' = finishCount + 1
  /\ wlPc' = "done"
  /\ UNCHANGED <<optVars, srv, adm, registry, config, inits, rwMutex, launches, boxWrites, cancels, earlyRead, cfgVars, errRun, ctxSvc, runVars, execVars, sig, sigSent,
                 wlResult, wlCtxAtEnd, timer, timedOut, procExit>>

\* ------------------------------------------------------------------ time
\* One tick of the timer armed by time.After(TimeoutStop) in the bounded wait
Tick ==
  /\ Alive
  /\ execPc = "wait" \/ runPc = "select2"
  /\ timer < TimeoutStop
  /\ timer' = timer + 1
  /\ UNCHANGED <<optVars, srv, adm, registry, config, inits, rwMutex, histVars, cfgVars, errRun, ctxSvc, finishRun, runVars, execVars, sig,
                 sigSent, wlVars, timedOut, procExit>>

\* -------------------------------------------------------- manager.Execute
\* Execute without its first report: the workload is launched at once
ExecSkipStartPending ==
  /\ Alive /\ execPc = "sendStartPending"
  /\ execPc' = "launch"
  /\ UNCHANGED <<optVars, srv, adm, registry, config, inits, rwMutex, histVars, cfgVars, errRun, ctxSvc, finishRun, runVars, execRet, c,
                 changes, nReq, stopConsumed, sig, sigSent, wlVars, timer,
                 timedOut, procExit>>

\* changes <- svc.Status{State: svc.StartPending}
ExecSendStartPending ==
  /\ Alive /\ execPc = "sendStartPending"
  /\ changes' = Append(changes, Status("StartPending", {}))
  /\ execPc' = "launch"
  /\ UNCHANGED <<optVars, srv, adm, registry, config, inits, rwMutex, histVars, cfgVars, errRun, ctxSvc, finishRun, runVars, execRet, c,
                 nReq, stopConsumed, sig, sigSent, wlVars, timer, timedOut,
                 procExit>>

\* a launch after which Execute stays where it launches
ExecLaunchStay ==
  /\ Alive /\ execPc = "launch"
  /\ Launch
  /\ finishRun' = FALSE
  /\ execPc' \in {"launch", "sendRunning"}
  /\ UNCHANGED <<optVars, srv, adm, registry, config, inits, rwMutex, boxWrites, finishCount, cancels, earlyRead, cfgVars, errRun, ctxSvc, runVars, execRet, c, changes, nReq,
                 stopConsumed, sig, sigSent, timer, timedOut, procExit>>

\* finishRun := m.runFuncWithNotify()
ExecLaunch ==
  /\ Alive /\ execPc = "launch"
  /\ Launch
  /\ finishRun' = FALSE
  /\ execPc' = "sendRunning"
  /\ UNCHANGED <<optVars, srv, adm, registry, config, inits, rwMutex, boxWrites, finishCount, cancels, earlyRead, cfgVars, errRun, ctxSvc, runVars, execRet, c, changes, nReq,
                 stopConsumed, sig, sigSent, timer, timedOut, procExit>>

\* changes <- svc.Status{State: svc.Running, Accepts: cmdAccepted}
ExecSendRunning ==
  /\ Alive /\ execPc = "sendRunning"
  /\ changes' = Append(changes, Status("Running", cmdAccepted))
  /\ execPc' = "loop"
  /\ UNCHANGED <<optVars, srv, adm, registry, config, inits, rwMutex, histVars, cfgVars, errRun, ctxSvc, finishRun, runVars, execRet, c,
                 nReq, stopConsumed, sig, sigSent, wlVars, timer, timedOut,
                 procExit>>

\* the early exit reported without the service-specific flag
EarlyExitNotSpecific == <<FALSE, 1>>

\* value returned when the workload ends before a stop request
EarlyExitResult == <<TRUE, 1>>

\* case <-finishRun: return true, 1
ExecFinishRun ==
  /\ Alive /\ execPc = "loop"
  /\ finishRun
  /\ execRet' = EarlyExitResult
  /\ execPc' = "returned"
  /\ UNCHANGED <<optVars, srv, adm, registry, config, inits, rwMutex, histVars, cfgVars, errRun, ctxSvc, finishRun, runVars, c, changes,
                 nReq, stopConsumed, sig, sigSent, wlVars, timer, timedOut,
                 procExit>>

\* a request switch that treats Shutdown apart from Stop: Shutdown triggers
\* the cancellation without the StopPending report
ExecRecvShutdownApart ==
  /\ Alive /\ execPc = "loop"
  /\ \E cmd \in Cmds :
       /\ cmd \notin {"Stop", "Shutdown"} => nReq < MaxRequests
       /\ c' = [Cmd |-> cmd, CurrentStatus |-> changes[Len(changes)]]
       /\ nReq' = IF cmd \in {"Stop", "Shutdown"} THEN nReq ELSE nReq + 1
       /\ stopConsumed' = (cmd \in {"Stop", "Shutdown"})
       /\ execPc' = CASE cmd = "Interrogate" -> "echo"
                      [] cmd = "Stop"        -> "sendStopPending"
                      [] cmd = "Shutdown"    -> "cancel"
                      [] OTHER               -> "loop"
  /\ UNCHANGED <<optVars, srv, adm, registry, config, inits, rwMutex, histVars, cfgVars, errRun, ctxSvc, finishRun, runVars, execRet, changes,
                 sig, sigSent, wlVars, timer, timedOut, procExit>>

\* case c := <-r, and the switch on c.Cmd
ExecRecv ==
  /\ Alive /\ execPc = "loop"
  /\ \E cmd \in Cmds :
       /\ cmd \notin {"Stop", "Shutdown"} => nReq < MaxRequests
       /\ c' = [Cmd |-> cmd, CurrentStatus |-> changes[Len(changes)]]
       /\ nReq' = IF cmd \in {"Stop", "Shutdown"} THEN nReq ELSE nReq + 1
       /\ stopConsumed' = (cmd \in {"Stop", "Shutdown"})
       /\ execPc' = CASE cmd = "Interrogate"           -> "echo"
                      [] cmd \in {"Stop", "Shutdown"}  -> "sendStopPending"
                      [] OTHER                         -> "loop"
  /\ UNCHANGED <<optVars, srv, adm, registry, config, inits, rwMutex, histVars, cfgVars, errRun, ctxSvc, finishRun, runVars, execRet, changes,
                 sig, sigSent, wlVars, timer, timedOut, procExit>>

\* Interrogate answered with a fixed status instead of c.CurrentStatus
ExecEchoStale ==
  /\ Alive /\ execPc = "echo"
  /\ changes' = Append(changes, Status("StartPending", {}))
  /\ execPc' = "loop"
  /\ UNCHANGED <<optVars, srv, adm, registry, config, inits, rwMutex, histVars, cfgVars, errRun, ctxSvc, finishRun, runVars, execRet, c,
                 nReq, stopConsumed, sig, sigSent, wlVars, timer, timedOut,
                 procExit>>

\* Interrogate answered with the state alone, the accepted commands dropped
ExecEchoNoAccepts ==
  /\ Alive /\ execPc = "echo"
  /\ changes' = Append(changes, Status(c.CurrentStatus.State, {}))
  /\ execPc' = "loop"
  /\ UNCHANGED <<optVars, srv, adm, registry, config, inits, rwMutex, histVars, cfgVars, errRun, ctxSvc, finishRun, runVars, execRet, c,
                 nReq, stopConsumed, sig, sigSent, wlVars, timer, timedOut,
                 procExit>>

\* case svc.Interrogate: changes <- c.CurrentStatus
ExecEcho ==
  /\ Alive /\ execPc = "echo"
  /\ changes' = Append(changes, c.CurrentStatus)
  /\ execPc' = "loop"
  /\ UNCHANGED <<optVars, srv, adm, registry, config, inits, rwMutex, histVars, cfgVars, errRun, ctxSvc, finishRun, runVars, execRet, c,
                 nReq, stopConsumed, sig, sigSent, wlVars, timer, timedOut,
                 procExit>>

\* the stop branch reporting Stopped itself
ExecSendStopped ==
  /\ Alive /\ execPc = "sendStopPending"
  /\ changes' = Append(changes, Status("Stopped", {}))
  /\ execPc' = "cancel"
  /\ UNCHANGED <<optVars, srv, adm, registry, config, inits, rwMutex, histVars, cfgVars, errRun, ctxSvc, finishRun, runVars, execRet, c,
                 nReq, stopConsumed, sig, sigSent, wlVars, timer, timedOut,
                 procExit>>

\* case svc.Stop, svc.Shutdown: changes <- svc.Status{State: svc.StopPending}
ExecSendStopPending ==
  /\ Alive /\ execPc = "sendStopPending"
  /\ changes' = Append(changes, Status("StopPending", {}))
  /\ execPc' = "cancel"
  /\ UNCHANGED <<optVars, srv, adm, registry, config, inits, rwMutex, histVars, cfgVars, errRun, ctxSvc, finishRun, runVars, execRet, c,
                 nReq, stopConsumed, sig, sigSent, wlVars, timer, timedOut,
                 procExit>>

\* the bounded wait entered without m.cancelSvc()
ExecWaitWithoutCancel ==
  /\ Alive /\ execPc = "cancel"
  /\ timer' = 0
  /\ execPc' = "wait"
  /\ UNCHANGED <<optVars, srv, adm, registry, config, inits, rwMutex, histVars, cfgVars, errRun, ctxSvc, finishRun, runVars, execRet, c,
                 changes, nReq, stopConsumed, sig, sigSent, wlVars, timedOut,
                 procExit>>

\* m.cancelSvc() after which Execute goes on with its request loop
ExecCancelThenLoop ==
  /\ Alive /\ execPc = "cancel"
  /\ ctxSvc' = TRUE
  /\ cancels' = cancels + 1
  /\ timer' = 0
  /\ execPc' \in {"wait", "loop"}
  /\ UNCHANGED <<optVars, srv, adm, registry, config, inits, rwMutex, launches, boxWrites, finishCount, earlyRead, cfgVars, errRun, finishRun, runVars, execRet, c, changes,
                 nReq, stopConsumed, sig, sigSent, wlVars, timedOut, procExit>>

\* m.cancelSvc(), then the select with time.After(m.TimeoutStop) is entered
ExecCancel ==
  /\ Alive /\ execPc = "cancel"
  /\ ctxSvc' = TRUE
  /\ cancels' = cancels + 1
  /\ timer' = 0
  /\ execPc' = "wait"
  /\ UNCHANGED <<optVars, srv, adm, registry, config, inits, rwMutex, launches, boxWrites, finishCount, earlyRead, cfgVars, errRun, finishRun, runVars, execRet, c, changes,
                 nReq, stopConsumed, sig, sigSent, wlVars, timedOut, procExit>>

\* a completion branch of the inner select without break loop
ExecWaitFinishNoBreak ==
  /\ Alive /\ execPc = "wait"
  /\ finishRun
  /\ execPc' = "loop"
  /\ UNCHANGED <<optVars, srv, adm, registry, config, inits, rwMutex, histVars, cfgVars, errRun, ctxSvc, finishRun, runVars, execRet, c,
                 changes, nReq, stopConsumed, sig, sigSent, wlVars, timer,
                 timedOut, procExit>>

\* the completion branch of the inner select returning like the outer one
ExecWaitFinishAbnormal ==
  /\ Alive /\ execPc = "wait"
  /\ finishRun
  /\ execRet' = <<TRUE, 1>>
  /\ execPc' = "returned"
  /\ UNCHANGED <<optVars, srv, adm, registry, config, inits, rwMutex, histVars, cfgVars, errRun, ctxSvc, finishRun, runVars, c, changes,
                 nReq, stopConsumed, sig, sigSent, wlVars, timer, timedOut,
                 procExit>>

\* inner select, case <-finishRun; break loop; return false, 0
ExecWaitFinish ==
  /\ Alive /\ execPc = "wait"
  /\ finishRun
  /\ execRet' = <<FALSE, 0>>
  /\ execPc' = "returned"
  /\ UNCHANGED <<optVars, srv, adm, registry, config, inits, rwMutex, histVars, cfgVars, errRun, ctxSvc, finishRun, runVars, c, changes,
                 nReq, stopConsumed, sig, sigSent, wlVars, timer, timedOut,
                 procExit>>

\* the inner select without its timer branch
ExecWaitNoTimer ==
  /\ FALSE
  /\ UNCHANGED vars

\* inner select, case <-time.After(m.TimeoutStop); break loop; return false, 0
ExecWaitTimeout ==
  /\ Alive /\ execPc = "wait"
  /\ timer = TimeoutStop
  /\ timedOut' = TRUE
  /\ execRet' = <<FALSE, 0>>
  /\ execPc' = "returned"
  /\ UNCHANGED <<optVars, srv, adm, registry, config, inits, rwMutex, histVars, cfgVars, errRun, ctxSvc, finishRun, runVars, c, changes,
                 nReq, stopConsumed, sig, sigSent, wlVars, timer, procExit>>

\* ------------------------------------------------------ run, managed mode
\* errRun := svc.Run(svcMan.Name, svcMan): the dispatcher cannot be started
\* and svc.Run returns an error without calling Execute
SvcRunFail ==
  /\ Alive /\ runPc = "svcRun"
  /\ errSvcRun' = errDispatcher
  /\ runPc' = "getError"
  /\ UNCHANGED <<optVars, srv, adm, registry, config, inits, rwMutex, histVars, cfgVars, errRun, ctxSvc, finishRun, runRet, execVars, sig,
                 sigSent, wlVars, timer, timedOut, procExit>>

\* errRun := svc.Run(svcMan.Name, svcMan): the host calls svcMan.Execute
SvcRunExecute ==
  /\ Alive /\ runPc = "svcRun"
  /\ execPc' = "sendStartPending"
  /\ runPc' = "inSvcRun"
  /\ UNCHANGED <<optVars, srv, adm, registry, config, inits, rwMutex, histVars, cfgVars, errRun, ctxSvc, finishRun, runRet, errSvcRun,
                 execRet, c, changes, nReq, stopConsumed, sig, sigSent, wlVars,
                 timer, timedOut, procExit>>

\* svc.Run returns nil after Execute has returned
SvcRunReturn ==
  /\ Alive /\ runPc = "inSvcRun"
  /\ execPc = "returned"
  /\ errSvcRun' = Nil
  /\ runPc' = "getError"
  /\ UNCHANGED <<optVars, srv, adm, registry, config, inits, rwMutex, histVars, cfgVars, errRun, ctxSvc, finishRun, runRet, execVars, sig,
                 sigSent, wlVars, timer, timedOut, procExit>>

\* -------------------------------------------------- run, interactive mode
\* finishRun := svcMan.runFuncWithNotify(); sig := make(chan os.Signal, 1);
\* signalNotify(sig, os.Interrupt, syscall.SIGTERM)
RunLaunch ==
  /\ Alive /\ runPc = "launch"
  /\ Launch
  /\ finishRun' = FALSE
  /\ sig' = 0
  /\ runPc' = "select1"
  /\ UNCHANGED <<optVars, srv, adm, registry, config, inits, rwMutex, boxWrites, finishCount, cancels, earlyRead, cfgVars, errRun, ctxSvc, runRet, errSvcRun, execVars, sigSent,
                 timer, timedOut, procExit>>

\* The OS delivers an interrupt or terminate signal to the subscribed channel
Signal ==
  /\ Alive /\ interactive
  /\ runPc \in {"select1", "cancel", "select2"}
  /\ ~sigSent
  /\ sigSent' = TRUE
  /\ sig' = 1
  /\ UNCHANGED <<optVars, srv, adm, registry, config, inits, rwMutex, histVars, cfgVars, errRun, ctxSvc, finishRun, runVars, execVars, wlVars,
                 timer, timedOut, procExit>>

\* a signal branch without svcMan.cancelSvc()
RunSelectSigNoCancel ==
  /\ Alive /\ runPc = "select1"
  /\ sig > 0
  /\ sig' = sig - 1
  /\ timer' = 0
  /\ runPc' = "select2"
  /\ UNCHANGED <<optVars, srv, adm, registry, config, inits, rwMutex, histVars, cfgVars, errRun, ctxSvc, finishRun, runRet, errSvcRun,
                 execVars, sigSent, wlVars, timedOut, procExit>>

\* first select, case <-sig
RunSelectSig ==
  /\ Alive /\ runPc = "select1"
  /\ sig > 0
  /\ sig' = sig - 1
  /\ runPc' = "cancel"
  /\ UNCHANGED <<optVars, srv, adm, registry, config, inits, rwMutex, histVars, cfgVars, errRun, ctxSvc, finishRun, runRet, errSvcRun,
                 execVars, sigSent, wlVars, timer, timedOut, procExit>>

\* svcMan.cancelSvc(), then the second select is entered
RunCancel ==
  /\ Alive /\ runPc = "cancel"
  /\ ctxSvc' = TRUE
  /\ cancels' = cancels + 1
  /\ timer' = 0
  /\ runPc' = "select2"
  /\ UNCHANGED <<optVars, srv, adm, registry, config, inits, rwMutex, launches, boxWrites, finishCount, earlyRead, cfgVars, errRun, finishRun, runRet, errSvcRun, execVars, sig,
                 sigSent, wlVars, timedOut, procExit>>

\* a completion branch that cancels the context as the signal branch does
RunSelectFinishCancels ==
  /\ Alive /\ runPc = "select1"
  /\ finishRun
  /\ ctxSvc' = TRUE
  /\ cancels' = cancels + 1
  /\ timer' = 0
  /\ runPc' = "select2"
  /\ UNCHANGED <<optVars, srv, adm, registry, config, inits, rwMutex, launches, boxWrites, finishCount, earlyRead, cfgVars,
                 errRun, finishRun, runRet, errSvcRun, execVars, sig, sigSent,
                 wlVars, timedOut, procExit>>

\* first select, case <-finishRun, then the second select is entered
RunSelectFinish ==
  /\ Alive /\ runPc = "select1"
  /\ finishRun
  /\ timer' = 0
  /\ runPc' = "select2"
  /\ UNCHANGED <<optVars, srv, adm, registry, config, inits, rwMutex, histVars, cfgVars, errRun, ctxSvc, finishRun, runRet, errSvcRun,
                 execVars, sig, sigSent, wlVars, timedOut, procExit>>

\* a second select that sits out the whole grace period
RunWaitFinishFullGrace ==
  /\ Alive /\ runPc = "select2"
  /\ finishRun
  /\ timer = TimeoutStop
  /\ runPc' = "getError"
  /\ UNCHANGED <<optVars, srv, adm, registry, config, inits, rwMutex, histVars, cfgVars, errRun, ctxSvc, finishRun, runRet, errSvcRun,
                 execVars, sig, sigSent, wlVars, timer, timedOut, procExit>>

\* second select, case <-finishRun
RunWaitFinish ==
  /\ Alive /\ runPc = "select2"
  /\ finishRun
  /\ runPc' = "getError"
  /\ UNCHANGED <<optVars, srv, adm, registry, config, inits, rwMutex, histVars, cfgVars, errRun, ctxSvc, finishRun, runRet, errSvcRun,
                 execVars, sig, sigSent, wlVars, timer, timedOut, procExit>>

\* a second select whose timer branch is never taken
RunWaitNoTimer ==
  /\ Alive /\ runPc = "select2"
  /\ FALSE
  /\ timedOut' = TRUE
  /\ runPc' = "getError"
  /\ UNCHANGED <<optVars, srv, adm, registry, config, inits, rwMutex, histVars, cfgVars, errRun, ctxSvc, finishRun, runRet, errSvcRun,
                 execVars, sig, sigSent, wlVars, timer, procExit>>

\* second select, case <-time.After(svcMan.TimeoutStop)
RunWaitTimeout ==
  /\ Alive /\ runPc = "select2"
  /\ timer = TimeoutStop
  /\ timedOut' = TRUE
  /\ runPc' = "getError"
  /\ UNCHANGED <<optVars, srv, adm, registry, config, inits, rwMutex, histVars, cfgVars, errRun, ctxSvc, finishRun, runRet, errSvcRun,
                 execVars, sig, sigSent, wlVars, timer, procExit>>

\* a getError that reads the box without taking the lock
getErrorNoLock ==
  /\ Alive /\ runPc = "getError"
  /\ rwMutex' = [rwMutex EXCEPT !.r = rwMutex.r + 1]
  /\ runRet' = IF interactive THEN errRun
               ELSE IF errRun # Nil THEN errRun ELSE errSvcRun
  /\ earlyRead' = ~finishRun
  /\ runPc' = "getErrorRUnlock"
  /\ UNCHANGED <<optVars, srv, adm, registry, config, inits, launches, boxWrites, finishCount, cancels, cfgVars,
                 errRun, ctxSvc, finishRun, errSvcRun, execVars, sig, sigSent,
                 wlVars, timer, timedOut, procExit>>

\* a run that prefers the error of svc.Run to the stored error
getErrorHostFirst ==
  /\ Alive /\ runPc = "getError"
  /\ ~rwMutex.w
  /\ rwMutex' = [rwMutex EXCEPT !.r = rwMutex.r + 1]
  /\ runRet' = IF interactive THEN errRun
               ELSE IF errSvcRun # Nil THEN errSvcRun ELSE Nil
  /\ earlyRead' = ~finishRun
  /\ runPc' = "getErrorRUnlock"
  /\ UNCHANGED <<optVars, srv, adm, registry, config, inits, launches, boxWrites, finishCount, cancels, cfgVars,
                 errRun, ctxSvc, finishRun, errSvcRun, execVars, sig, sigSent,
                 wlVars, timer, timedOut, procExit>>

\* manager.getError, m.errRun.RLock() and the read of m.errRun.err: RLock
\* waits while a writer is inside.  The value read is the one run returns:
\* in managed mode the stored error when it is not nil, else the error of
\* svc.Run; in interactive mode the stored error
getError ==
  /\ Alive /\ runPc = "getError"
  /\ ~rwMutex.w
  /\ rwMutex' = [rwMutex EXCEPT !.r = rwMutex.r + 1]
  /\ runRet' = IF interactive THEN errRun
               ELSE IF errRun # Nil THEN errRun ELSE errSvcRun
  /\ earlyRead' = ~finishRun
  /\ runPc' = "getErrorRUnlock"
  /\ UNCHANGED <<optVars, srv, adm, registry, config, inits, launches, boxWrites, finishCount, cancels, cfgVars, errRun, ctxSvc, finishRun, errSvcRun, execVars, sig,
                 sigSent, wlVars, timer, timedOut, procExit>>

\* manager.getError, the deferred m.errRun.RUnlock(), and the return of run
getErrorRUnlock ==
  /\ Alive /\ runPc = "getErrorRUnlock"
  /\ rwMutex' = [rwMutex EXCEPT !.r = rwMutex.r - 1]
  /\ runPc' = "returned"
  /\ UNCHANGED <<optVars, srv, adm, registry, config, inits, histVars, cfgVars, errRun, ctxSvc, finishRun, runRet, errSvcRun, execVars, sig,
                 sigSent, wlVars, timer, timedOut, procExit>>


\* =================================================================
\* The option-based variant: Run(r, opts...), start, manager.run and
\* manager.Execute with the options TimeoutStop and DisablePanic.  Its
\* state is the record opt; the workload returns no value and the variant
\* has neither an outcome box nor a recoverer.
\* =================================================================
\* the two goroutines that call Run
Callers == {1, 2}

OptAlive == variant = "option" /\ ~opt.crashed

\* Run: runOnce.Do(func() { start(r, opts...) }).  The first caller runs
\* start, which builds the manager (timeout 20 s unless TimeoutStop is given,
\* disablePanic when DisablePanic is given) and calls run; a caller that
\* arrives while the first is inside Do waits for it; a later caller returns.
Run(i) ==
  /\ OptAlive /\ opt.callers[i] = "idle"
  /\ \/ /\ opt.runOnce = "fresh"
        /\ \E dp \in BOOLEAN, t \in 1..MaxTimeout :
             opt' = [opt EXCEPT !.runOnce = "running",
                                !.callers[i] = "inStart",
                                !.starts = @ + 1,
                                !.disablePanic = dp,
                                !.timeout = t,
                                !.pc = "run"]
     \/ /\ opt.runOnce = "running"
        /\ opt' = [opt EXCEPT !.callers[i] = "blocked"]
     \/ /\ opt.runOnce = "done"
        /\ opt' = [opt EXCEPT !.callers[i] = "returned"]
  /\ UNCHANGED winVars

\* sync.Once: the function passed to Do has returned or panicked; the Once is
\* done either way and the panic goes on to the caller of Run
OnceDone(i) ==
  /\ OptAlive /\ opt.callers[i] = "inStart"
  /\ opt.pc \in {"returned", "panicked"}
  /\ opt' = [opt EXCEPT !.runOnce = "done",
                        !.callers[i] = IF opt.pc = "panicked"
                                         THEN "panicked" ELSE "returned"]
  /\ UNCHANGED winVars

\* sync.Once: a caller that waited inside Do finds the Once done and returns
OnceSkip(i) ==
  /\ OptAlive /\ opt.callers[i] = "blocked"
  /\ opt.runOnce = "done"
  /\ opt' = [opt EXCEPT !.callers[i] = "returned"]
  /\ UNCHANGED winVars

\* manager.run: context.WithCancel and the branch on interactive
OptRunStart ==
  /\ OptAlive /\ opt.pc = "run"
  /\ opt' = [opt EXCEPT !.ctxSvc = FALSE,
                        !.pc = IF interactive THEN "launch" ELSE "svcRun"]
  /\ UNCHANGED winVars

\* errRun := svc.Run("", m) fails: panic(errRun)
OptSvcRunFail ==
  /\ OptAlive /\ opt.pc = "svcRun"
  /\ opt' = [opt EXCEPT !.pc = "panicked", !.panicValue = "errRun"]
  /\ UNCHANGED winVars

\* svc.Run("", m): the host calls m.Execute
OptSvcRunExecute ==
  /\ OptAlive /\ opt.pc = "svcRun"
  /\ opt' = [opt EXCEPT !.pc = "sendStartPending"]
  /\ UNCHANGED winVars

\* svc.Run returns nil after Execute has returned; run returns
OptSvcRunReturn ==
  /\ OptAlive /\ opt.pc = "execReturned"
  /\ opt' = [opt EXCEPT !.pc = "returned"]
  /\ UNCHANGED winVars

\* Execute: changes <- svc.Status{State: svc.StartPending}
OptExecSendStartPending ==
  /\ OptAlive /\ opt.pc = "sendStartPending"
  /\ opt' = [opt EXCEPT !.changes = Append(@, Status("StartPending", {})),
                        !.pc = "execLaunch"]
  /\ UNCHANGED winVars

\* Execute: finishRun := m.runFuncWithNotify()
OptExecLaunch ==
  /\ OptAlive /\ opt.pc = "execLaunch"
  /\ opt' = [opt EXCEPT !.wlPc = "running",
                        !.launches = @ + 1,
                        !.finishRun = FALSE,
                        !.pc = "sendRunning"]
  /\ UNCHANGED winVars

\* Execute: changes <- svc.Status{State: svc.Running, Accepts: cmdAccepted}
OptExecSendRunning ==
  /\ OptAlive /\ opt.pc = "sendRunning"
  /\ opt' = [opt EXCEPT !.changes = Append(@, Status("Running", cmdAccepted)),
                        !.pc = "loop"]
  /\ UNCHANGED winVars

\* Execute, case <-finishRun: panic("exit from run function") unless
\* disablePanic, else return false, 1.  The panic is raised in the goroutine
\* of the service host and ends the process.
OptExecFinishRun ==
  /\ OptAlive /\ opt.pc = "loop"
  /\ opt.finishRun
  /\ IF ~opt.disablePanic
       THEN opt' = [opt EXCEPT !.panicked = TRUE,
                               !.panicValue = "exit from run function",
                               !.crashed = TRUE]
       ELSE opt' = [opt EXCEPT !.execRet = <<FALSE, 1>>,
                               !.pc = "execReturned"]
  /\ UNCHANGED winVars

\* Execute, case c := <-r, and the switch on c.Cmd
OptExecRecv ==
  /\ OptAlive /\ opt.pc = "loop"
  /\ \E cmd \in Cmds :
       /\ cmd \notin {"Stop", "Shutdown"} => opt.nReq < MaxRequests
       /\ opt' = [opt EXCEPT
            !.c = cmd,
            !.nReq = IF cmd \in {"Stop", "Shutdown"} THEN @ ELSE @ + 1,
            !.stopConsumed = (cmd \in {"Stop", "Shutdown"}),
            !.pc = CASE cmd = "Interrogate"          -> "echo"
                     [] cmd \in {"Stop", "Shutdown"} -> "sendStopPending"
                     [] OTHER                        -> "loop"]
  /\ UNCHANGED winVars

\* Execute, case svc.Interrogate: changes <- c.CurrentStatus
OptExecEcho ==
  /\ OptAlive /\ opt.pc = "echo"
  /\ opt' = [opt EXCEPT !.changes = Append(@, opt.changes[Len(opt.changes)]),
                        !.pc = "loop"]
  /\ UNCHANGED winVars

\* Execute, case svc.Stop, svc.Shutdown: changes <- StopPending
OptExecSendStopPending ==
  /\ OptAlive /\ opt.pc = "sendStopPending"
  /\ opt' = [opt EXCEPT !.changes = Append(@, Status("StopPending", {})),
                        !.pc = "execCancel"]
  /\ UNCHANGED winVars

\* Execute: m.cancelSvc(), then the select with time.After(m.timeout)
OptExecCancel ==
  /\ OptAlive /\ opt.pc = "execCancel"
  /\ opt' = [opt EXCEPT !.ctxSvc = TRUE, !.timer = 0, !.pc = "wait"]
  /\ UNCHANGED winVars

\* Execute, inner select, either case; break loop; return false, 0
OptExecWaitDone ==
  /\ OptAlive /\ opt.pc = "wait"
  /\ opt.finishRun \/ opt.timer = opt.timeout
  /\ opt' = [opt EXCEPT !.execRet = <<FALSE, 0>>, !.pc = "execReturned"]
  /\ UNCHANGED winVars

\* run, interactive: finishRun := m.runFuncWithNotify(); sig := make(chan
\* os.Signal, 1); m.signalNotify(sig, os.Interrupt, syscall.SIGTERM)
OptRunLaunch ==
  /\ OptAlive /\ opt.pc = "launch"
  /\ opt' = [opt EXCEPT !.wlPc = "running",
                        !.launches = @ + 1,
                        !.finishRun = FALSE,
                        !.sig = 0,
                        !.pc = "select1"]
  /\ UNCHANGED winVars

\* the OS delivers an interrupt or terminate signal
OptSignal ==
  /\ OptAlive /\ interactive
  /\ opt.pc \in {"select1", "cancel", "select2"}
  /\ ~opt.sigSent
  /\ opt' = [opt EXCEPT !.sigSent = TRUE, !.sig = 1]
  /\ UNCHANGED winVars

\* run, first select, case <-sig
OptRunSelectSig ==
  /\ OptAlive /\ opt.pc = "select1"
  /\ opt.sig > 0
  /\ opt' = [opt EXCEPT !.sig = @ - 1, !.pc = "cancel"]
  /\ UNCHANGED winVars

\* run: m.cancelSvc(), then the second select is entered
OptRunCancel ==
  /\ OptAlive /\ opt.pc = "cancel"
  /\ opt' = [opt EXCEPT !.ctxSvc = TRUE, !.timer = 0, !.pc = "select2"]
  /\ UNCHANGED winVars

\* a completion branch that panics whether or not disablePanic is set
OptRunSelectFinishAlwaysPanics ==
  /\ OptAlive /\ opt.pc = "select1"
  /\ opt.finishRun
  /\ opt' = [opt EXCEPT !.panicked = TRUE,
                        !.panicValue = "exit from run function",
                        !.pc = "panicked"]
  /\ UNCHANGED winVars

\* run, first select, case <-finishRun: panic("exit from run function")
\* unless disablePanic, else return
OptRunSelectFinish ==
  /\ OptAlive /\ opt.pc = "select1"
  /\ opt.finishRun
  /\ IF ~opt.disablePanic
       THEN opt' = [opt EXCEPT !.panicked = TRUE,
                               !.panicValue = "exit from run function",
                               !.pc = "panicked"]
       ELSE opt' = [opt EXCEPT !.pc = "returned"]
  /\ UNCHANGED winVars

\* run, second select, either case; run returns
OptRunWaitDone ==
  /\ OptAlive /\ opt.pc = "select2"
  /\ opt.finishRun \/ opt.timer = opt.timeout
  /\ opt' = [opt EXCEPT !.pc = "returned"]
  /\ UNCHANGED winVars

\* one tick of the timer armed by time.After(m.timeout)
OptTick ==
  /\ OptAlive /\ opt.pc \in {"wait", "select2"}
  /\ opt.timer < opt.timeout
  /\ opt' = [opt EXCEPT !.timer = @ + 1]
  /\ UNCHANGED winVars

\* the goroutine of runFuncWithNotify: m.svcHandler(m.ctxSvc) returns
OptWorkloadReturn ==
  /\ OptAlive /\ opt.wlPc = "running"
  /\ opt' = [opt EXCEPT !.wlPc = "cancelRun"]
  /\ UNCHANGED winVars

\* m.svcHandler(m.ctxSvc) panics; nothing recovers it
OptWorkloadPanic ==
  /\ OptAlive /\ opt.wlPc = "running"
  /\ opt' = [opt EXCEPT !.wlPc = "panicking"]
  /\ UNCHANGED winVars

\* deferred cancelRun(); after a panic the runtime then ends the process
OptCancelRun ==
  /\ OptAlive /\ opt.wlPc \in {"cancelRun", "panicking"}
  /\ opt' = [opt EXCEPT !.finishRun = TRUE,
                        !.wlPc = IF opt.wlPc = "panicking"
                                   THEN "dying" ELSE "done"]
  /\ UNCHANGED winVars

\* the uncaught panic of the workload goroutine ends the process
OptCrash ==
  /\ OptAlive /\ opt.wlPc = "dying"
  /\ opt' = [opt EXCEPT !.crashed = TRUE]
  /\ UNCHANGED winVars

OptNext ==
  \/ \E i \in Callers : Run(i) \/ OnceDone(i) \/ OnceSkip(i)
  \/ OptRunStart \/ OptSvcRunFail \/ OptSvcRunExecute \/ OptSvcRunReturn
  \/ OptExecSendStartPending \/ OptExecLaunch \/ OptExecSendRunning
  \/ OptExecFinishRun \/ OptExecRecv \/ OptExecEcho
  \/ OptExecSendStopPending \/ OptExecCancel \/ OptExecWaitDone
  \/ OptRunLaunch \/ OptSignal \/ OptRunSelectSig \/ OptRunCancel
  \/ OptRunSelectFinish \/ OptRunWaitDone \/ OptTick
  \/ OptWorkloadReturn \/ OptWorkloadPanic \/ OptCancelRun \/ OptCrash

\* =================================================================
\* The lifecycle operations install, uninstall, start, stop and restart.
\* One of them is called in a process of its own, before or after Init has
\* built svcMan; the service manager of the host (mgr) is the environment and
\* holds the service, if it is installed, in one of its states.  The state of
\* the operation and of the service manager is the record adm.  Time is
\* counted in polling intervals of stopWithWait.
\* =================================================================
\* the lifecycle operations
Ops == {"install", "uninstall", "start", "stop", "restart"}

\* states the service manager reports for the service
ScmStates == {"Stopped", "Running", "StopPending"}

\* timeDuration of stopWithWait (time.Millisecond * 50), in polling intervals
timeDuration == 1

\* time.After(timeStopDefault + (timeDuration * 2)) of stopWithWait, in
\* polling intervals
StopDeadline == timeStopDefault * PollsPerTick + (timeDuration * 2)

\* errors.New("service has already existed")
errExist == "service has already existed"
\* errors.New("service was not installed")
errNotExist == "service was not installed"
\* an error returned by a call to the service manager or by execPath
errMgr == "service manager error"

AdmAlive == variant = "admin"

\* the operation returns err
AdmReturn(err) == [adm EXCEPT !.ret = err, !.pc = "returned"]

\* the operation returns the error of a call that failed; fault records
\* that the call failed although the service manager could have served it
AdmFail(fault) ==
  [adm EXCEPT !.ret = errMgr, !.pc = "returned", !.fault = fault]

\* an operation that does not look at svcMan
LifecycleCallUnchecked(op) ==
  /\ AdmAlive /\ adm.pc = "idle"
  /\ adm' = IF FALSE
              THEN [AdmReturn(errSvcInit) EXCEPT !.op = op]
              ELSE [adm EXCEPT !.op = op,
                               !.pc = IF op = "install" THEN "execPath"
                                                        ELSE "connect"]
  /\ UNCHANGED admFrame

\* install, uninstall, start, stop or restart is called: errSvcInit when
\* svcMan == nil, else the operation goes on
LifecycleCall(op) ==
  /\ AdmAlive /\ adm.pc = "idle"
  /\ adm' = IF ~adm.svcMan
              THEN [AdmReturn(errSvcInit) EXCEPT !.op = op]
              ELSE [adm EXCEPT !.op = op,
                               !.pc = IF op = "install" THEN "execPath"
                                                        ELSE "connect"]
  /\ UNCHANGED admFrame

\* manager.install: path, err := m.execPath()
ExecPath ==
  /\ AdmAlive /\ adm.pc = "execPath"
  /\ \E ok \in BOOLEAN :
       adm' = IF ok THEN [adm EXCEPT !.pc = "connect"]
                    ELSE AdmFail(TRUE)
  /\ UNCHANGED admFrame

\* mg, err := mgr.Connect()
MgrConnect ==
  /\ AdmAlive /\ adm.pc = "connect"
  /\ \E ok \in BOOLEAN :
       adm' = IF ok
                THEN [adm EXCEPT !.scmCalls = @ + 1, !.pc = "open"]
                ELSE [AdmFail(TRUE) EXCEPT !.scmCalls = @ + 1]
  /\ UNCHANGED admFrame

\* an install that goes on to CreateService whatever OpenService says
OpenServiceInstallAnyway ==
  /\ AdmAlive /\ adm.pc = "open"
  /\ \E ok \in (IF adm.installed THEN BOOLEAN ELSE {FALSE}) :
       adm' =
         CASE adm.op = "install" ->
                IF FALSE THEN [AdmReturn(errExist) EXCEPT !.scmCalls = @ + 1]
                      ELSE [adm EXCEPT !.scmCalls = @ + 1, !.pc = "create",
                                       !.fault = adm.fault]
           [] adm.op = "uninstall" ->
                IF ok THEN [adm EXCEPT !.scmCalls = @ + 1, !.pc = "delete"]
                      ELSE [AdmReturn(errNotExist) EXCEPT
                              !.scmCalls = @ + 1, !.fault = adm.installed]
           [] adm.op = "start" ->
                IF ok THEN [adm EXCEPT !.scmCalls = @ + 1, !.pc = "start"]
                      ELSE [AdmFail(adm.installed) EXCEPT
                              !.scmCalls = @ + 1]
           [] adm.op \in {"stop", "restart"} ->
                IF ok THEN [adm EXCEPT !.scmCalls = @ + 1, !.pc = "control"]
                      ELSE [AdmFail(adm.installed) EXCEPT
                              !.scmCalls = @ + 1]
  /\ UNCHANGED admFrame

\* s, err := mg.OpenService(name), and what each operation does with err.
\* The call fails when the service is not installed and can fail when it is.
OpenService ==
  /\ AdmAlive /\ adm.pc = "open"
  /\ \E ok \in (IF adm.installed THEN BOOLEAN ELSE {FALSE}) :
       adm' =
         CASE adm.op = "install" ->
                IF ok THEN [AdmReturn(errExist) EXCEPT !.scmCalls = @ + 1]
                      ELSE [adm EXCEPT !.scmCalls = @ + 1, !.pc = "create",
                                       !.fault = adm.installed]
           [] adm.op = "uninstall" ->
                IF ok THEN [adm EXCEPT !.scmCalls = @ + 1, !.pc = "delete"]
                      ELSE [AdmReturn(errNotExist) EXCEPT
                              !.scmCalls = @ + 1, !.fault = adm.installed]
           [] adm.op = "start" ->
                IF ok THEN [adm EXCEPT !.scmCalls = @ + 1, !.pc = "start"]
                      ELSE [AdmFail(adm.installed) EXCEPT
                              !.scmCalls = @ + 1]
           [] adm.op \in {"stop", "restart"} ->
                IF ok THEN [adm EXCEPT !.scmCalls = @ + 1, !.pc = "control"]
                      ELSE [AdmFail(adm.installed) EXCEPT
                              !.scmCalls = @ + 1]
  /\ UNCHANGED admFrame

\* manager.install: s, err = mg.CreateService(...); the service manager
\* refuses to create a service that exists.  install then calls
\* setRestartOnFailure when RestartOnFailure # 0.
CreateService ==
  /\ AdmAlive /\ adm.pc = "create"
  /\ \E ok \in (IF adm.installed THEN {FALSE} ELSE BOOLEAN) :
       adm' =
         IF ~ok THEN [AdmFail(adm.fault \/ ~adm.installed) EXCEPT
                        !.scmCalls = @ + 1]
         ELSE IF adm.RestartOnFailure
           THEN [adm EXCEPT !.scmCalls = @ + 1, !.creates = @ + 1,
                            !.installed = TRUE, !.svcState = "Stopped",
                            !.pc = "setRestartOnFailure"]
           ELSE [AdmReturn(Nil) EXCEPT !.scmCalls = @ + 1,
                                       !.creates = @ + 1,
                                       !.installed = TRUE,
                                       !.svcState = "Stopped"]
  /\ UNCHANGED admFrame

\* manager.setRestartOnFailure: Connect, OpenService and the two calls of
\* ChangeServiceConfig2
setRestartOnFailure ==
  /\ AdmAlive /\ adm.pc = "setRestartOnFailure"
  /\ \E ok \in BOOLEAN :
       adm' = IF ok THEN [AdmReturn(Nil) EXCEPT !.scmCalls = @ + 1,
                                                !.configs = @ + 1]
                    ELSE [AdmFail(TRUE) EXCEPT !.scmCalls = @ + 1]
  /\ UNCHANGED admFrame

\* uninstall: err = s.Delete()
ServiceDelete ==
  /\ AdmAlive /\ adm.pc = "delete"
  /\ \E ok \in BOOLEAN :
       adm' = IF ok THEN [AdmReturn(Nil) EXCEPT !.scmCalls = @ + 1,
                                                !.deletes = @ + 1,
                                                !.installed = FALSE]
                    ELSE [AdmFail(TRUE) EXCEPT !.scmCalls = @ + 1]
  /\ UNCHANGED admFrame

\* start, restart: return s.Start().  The service manager starts a service
\* only when it is stopped.
ServiceStart ==
  /\ AdmAlive /\ adm.pc = "start"
  /\ \E ok \in (IF adm.svcState = "Stopped" THEN BOOLEAN ELSE {FALSE}) :
       adm' = [AdmReturn(IF ok THEN Nil ELSE errMgr) EXCEPT
                 !.fault = (~ok /\ adm.svcState = "Stopped"),
                 !.scmCalls = @ + 1,
                 !.starts = @ + 1,
                 !.startSeen = adm.status,
                 !.svcState = IF ok THEN "Running" ELSE @]
  /\ UNCHANGED admFrame

\* stopWithWait: status, err := s.Control(svc.Stop); the timeout and the
\* ticker are started.  The service manager refuses the control when the
\* service does not run; a service that accepts it is StopPending or, when it
\* stops at once, Stopped.
ServiceControl ==
  /\ AdmAlive /\ adm.pc = "control"
  /\ \/ adm' = [AdmFail(adm.svcState = "Running") EXCEPT
                  !.scmCalls = @ + 1, !.controls = @ + 1]
     \/ /\ adm.svcState = "Running"
        /\ \E st \in {"StopPending", "Stopped"} :
             adm' = [adm EXCEPT !.scmCalls = @ + 1,
                                !.controls = @ + 1,
                                !.svcState = st,
                                !.status = st,
                                !.elapsed = 0,
                                !.tick = FALSE,
                                !.pc = "wait"]
  /\ UNCHANGED admFrame

\* what follows stopWithWait when it returns nil: stop returns nil, restart
\* goes on to s.Start()
AfterStopWithWait ==
  IF adm.op = "restart" THEN [adm EXCEPT !.pc = "start"] ELSE AdmReturn(Nil)

\* stopWithWait: the loop condition status.State != svc.Stopped is false
StopWaitStopped ==
  /\ AdmAlive /\ adm.pc = "wait"
  /\ adm.status = "Stopped"
  /\ adm' = AfterStopWithWait
  /\ UNCHANGED admFrame

\* stopWithWait, case <-tick.C: status, err = s.Query()
StopWaitQuery ==
  /\ AdmAlive /\ adm.pc = "wait"
  /\ adm.status # "Stopped"
  /\ adm.tick
  /\ \E ok \in BOOLEAN :
       adm' = IF ok THEN [adm EXCEPT !.scmCalls = @ + 1,
                                     !.queries = @ + 1,
                                     !.tick = FALSE,
                                     !.status = adm.svcState]
                    ELSE [AdmFail(TRUE) EXCEPT !.scmCalls = @ + 1,
                                               !.queries = @ + 1,
                                               !.tick = FALSE]
  /\ UNCHANGED admFrame

\* a bounded wait whose timeout never fires
StopWaitNoTimeout ==
  /\ AdmAlive /\ adm.pc = "wait"
  /\ adm.status # "Stopped"
  /\ adm.elapsed > StopDeadline
  /\ adm' = [AfterStopWithWait EXCEPT !.expired = TRUE]
  /\ UNCHANGED admFrame

\* stopWithWait, case <-timeout: break loop
StopWaitTimeout ==
  /\ AdmAlive /\ adm.pc = "wait"
  /\ adm.status # "Stopped"
  /\ adm.elapsed = StopDeadline
  /\ adm' = [AfterStopWithWait EXCEPT !.expired = TRUE]
  /\ UNCHANGED admFrame

\* one polling interval passes: the ticker puts a tick in tick.C
PollTime ==
  /\ AdmAlive /\ adm.pc = "wait"
  /\ adm.elapsed < StopDeadline
  /\ adm' = [adm EXCEPT !.elapsed = @ + 1, !.tick = TRUE]
  /\ UNCHANGED admFrame

\* the service that was asked to stop reaches the Stopped state
ScmStops ==
  /\ AdmAlive /\ adm.pc = "wait"
  /\ adm.svcState = "StopPending"
  /\ adm' = [adm EXCEPT !.svcState = "Stopped"]
  /\ UNCHANGED admFrame

AdmNext ==
  \/ \E op \in Ops : LifecycleCall(op)
  \/ ExecPath \/ MgrConnect \/ OpenService \/ CreateService
  \/ setRestartOnFailure \/ ServiceDelete \/ ServiceStart \/ ServiceControl
  \/ StopWaitStopped \/ StopWaitQuery \/ StopWaitTimeout \/ PollTime
  \/ ScmStops

\* =================================================================
\* The Servicer variant: Init(service Servicer, c Config), Run, and
\* manager.Execute with the one-shot completion branch that asks the
\* service manager to stop the service (manager.sendCmdStop).  Its state is
\* the record srv.  The service host hands the requests of the service
\* manager to Execute; a Stop the service manager accepted from sendCmdStop
\* is queued by the host, which keeps it until Execute receives from r.
\* =================================================================
SrvAlive == variant = "servicer" /\ ~srv.exited

\* everything but srv
srvFrame == <<interactive, timeStopDefault, svcMan, TimeoutStop, errRun,
              rwMutex, ctxSvc, finishRun, runPc, runRet, errSvcRun, execPc,
              execRet, c, changes, nReq, stopConsumed, sig, sigSent, wlPc,
              wlResult, wlCtxAtEnd, timer, timedOut, procExit, launches,
              boxWrites, finishCount, cancels, earlyRead, inits, registry,
              config, adm, variant, opt>>

\* changes <- svc.Status{State: svc.StartPending}
SrvExecSendStartPending ==
  /\ SrvAlive /\ srv.pc = "sendStartPending"
  /\ srv' = [srv EXCEPT !.changes = Append(@, Status("StartPending", {})),
                        !.pc = "launch"]
  /\ UNCHANGED srvFrame

\* finishRun := m.runFuncWithNotify(): the goroutine starts m.svc.Run
SrvExecLaunch ==
  /\ SrvAlive /\ srv.pc = "launch"
  /\ srv' = [srv EXCEPT !.wlPc = "running", !.launches = @ + 1,
                        !.pc = "sendRunning"]
  /\ UNCHANGED srvFrame

\* changes <- svc.Status{State: svc.Running, Accepts: cmdAccepted};
\* forceStop := finishRun
SrvExecSendRunning ==
  /\ SrvAlive /\ srv.pc = "sendRunning"
  /\ srv' = [srv EXCEPT !.changes = Append(@, Status("Running", cmdAccepted)),
                        !.forceStop = TRUE,
                        !.pc = "loop"]
  /\ UNCHANGED srvFrame

\* a completion branch that stays armed after it has fired once
SrvExecForceStopArmed ==
  /\ SrvAlive /\ srv.pc = "loop"
  /\ srv.forceStop /\ srv.finishRun
  /\ srv.sendCmdStops < 2
  /\ srv' = [srv EXCEPT !.sendCmdStops = @ + 1,
                        !.pc = "connect"]
  /\ UNCHANGED srvFrame

\* case <-forceStop: forceStop = nil; m.sendCmdStop() is entered.  A receive
\* from a nil channel is never ready, so the branch is taken only while
\* forceStop is finishRun and finishRun.Done() is closed
SrvExecForceStop ==
  /\ SrvAlive /\ srv.pc = "loop"
  /\ srv.forceStop /\ srv.finishRun
  /\ srv' = [srv EXCEPT !.forceStop = FALSE,
                        !.sendCmdStops = @ + 1,
                        !.pc = "connect"]
  /\ UNCHANGED srvFrame

\* sendCmdStop: mg, err := mgr.Connect(); on an error sendCmdStop returns it
\* and Execute, which drops the value, is back in the loop
SrvMgrConnect ==
  /\ SrvAlive /\ srv.pc = "connect"
  /\ \/ srv' = [srv EXCEPT !.pc = "openService"]
     \/ srv' = [srv EXCEPT !.fault = "connect", !.pc = "loop"]
  /\ UNCHANGED srvFrame

\* sendCmdStop: s, err := mg.OpenService(m.Name)
SrvOpenService ==
  /\ SrvAlive /\ srv.pc = "openService"
  /\ \/ srv' = [srv EXCEPT !.pc = "control"]
     \/ srv' = [srv EXCEPT !.fault = "openService", !.pc = "loop"]
  /\ UNCHANGED srvFrame

\* a service manager that never accepts the stop command of the service
SrvServiceControlRefused ==
  /\ SrvAlive /\ srv.pc = "control"
  /\ srv' = [srv EXCEPT !.controls = @ + 1, !.fault = "control",
                        !.pc = "loop"]
  /\ UNCHANGED srvFrame

\* sendCmdStop: _, err = s.Control(svc.Stop); the deferred s.Close() and
\* mg.Disconnect() run and Execute is back in the loop.  When the service
\* manager accepts the command it sends a Stop request to the service
SrvServiceControl ==
  /\ SrvAlive /\ srv.pc = "control"
  /\ \/ srv' = [srv EXCEPT !.controls = @ + 1, !.queued = TRUE,
                           !.pc = "loop"]
     \/ srv' = [srv EXCEPT !.controls = @ + 1, !.fault = "control",
                           !.pc = "loop"]
  /\ UNCHANGED srvFrame

\* case c := <-r with a request the service manager sends of its own accord
SrvExecRecv ==
  /\ SrvAlive /\ srv.pc = "loop"
  /\ \E cmd \in Cmds :
       /\ cmd \notin {"Stop", "Shutdown"} => srv.nReq < MaxRequests
       /\ srv' = [srv EXCEPT
            !.c = [Cmd |-> cmd,
                   CurrentStatus |-> srv.changes[Len(srv.changes)]],
            !.nReq = IF cmd \in {"Stop", "Shutdown"} THEN @ ELSE @ + 1,
            !.stopConsumed = (cmd \in {"Stop", "Shutdown"}),
            !.pc = CASE cmd = "Interrogate"          -> "echo"
                     [] cmd \in {"Stop", "Shutdown"} -> "sendStopPending"
                     [] OTHER                        -> "loop"]
  /\ UNCHANGED srvFrame

\* case c := <-r with the Stop request that answers sendCmdStop
SrvExecRecvStop ==
  /\ SrvAlive /\ srv.pc = "loop"
  /\ srv.queued
  /\ srv' = [srv EXCEPT
       !.c = [Cmd |-> "Stop",
              CurrentStatus |-> srv.changes[Len(srv.changes)]],
       !.queued = FALSE,
       !.stopConsumed = TRUE,
       !.pc = "sendStopPending"]
  /\ UNCHANGED srvFrame

\* case svc.Interrogate: changes <- c.CurrentStatus
SrvExecEcho ==
  /\ SrvAlive /\ srv.pc = "echo"
  /\ srv' = [srv EXCEPT !.changes = Append(@, srv.c.CurrentStatus),
                        !.pc = "loop"]
  /\ UNCHANGED srvFrame

\* case svc.Stop, svc.Shutdown: changes <- svc.Status{State: svc.StopPending}
SrvExecSendStopPending ==
  /\ SrvAlive /\ srv.pc = "sendStopPending"
  /\ srv' = [srv EXCEPT !.changes = Append(@, Status("StopPending", {})),
                        !.pc = "cancel"]
  /\ UNCHANGED srvFrame

\* m.cancelSvc(), then the bounded wait is entered and its timer armed
SrvExecCancel ==
  /\ SrvAlive /\ srv.pc = "cancel"
  /\ srv' = [srv EXCEPT !.ctxSvc = TRUE, !.timer = 0, !.pc = "wait"]
  /\ UNCHANGED srvFrame

\* case <-finishRun of the bounded wait; break loop; return false, 0
SrvExecWaitFinish ==
  /\ SrvAlive /\ srv.pc = "wait"
  /\ srv.finishRun
  /\ srv' = [srv EXCEPT !.execRet = <<FALSE, 0>>, !.pc = "returned"]
  /\ UNCHANGED srvFrame

\* case <-time.After(m.TimeoutStop); break loop; return false, 0
SrvExecWaitTimeout ==
  /\ SrvAlive /\ srv.pc = "wait"
  /\ srv.timer = srv.TimeoutStop
  /\ srv' = [srv EXCEPT !.timedOut = TRUE, !.execRet = <<FALSE, 0>>,
                        !.pc = "returned"]
  /\ UNCHANGED srvFrame

\* one tick of the timer armed by time.After(m.TimeoutStop)
SrvTick ==
  /\ SrvAlive /\ srv.pc = "wait"
  /\ srv.timer < srv.TimeoutStop
  /\ srv' = [srv EXCEPT !.timer = @ + 1]
  /\ UNCHANGED srvFrame

\* the goroutine of runFuncWithNotify: m.svc.Run(m.ctxSvc) returns e
SrvWorkloadReturn ==
  /\ SrvAlive /\ srv.wlPc = "running"
  /\ \E e \in {Nil, errWorkload} :
       srv' = [srv EXCEPT !.wlResult = e, !.wlPc = "setError"]
  /\ UNCHANGED srvFrame

\* m.svc.Run(m.ctxSvc) panics and the stack unwinds into m.recoverer
SrvWorkloadPanic ==
  /\ SrvAlive /\ srv.wlPc = "running"
  /\ srv' = [srv EXCEPT !.wlResult = "panic", !.wlPc = "recoverer"]
  /\ UNCHANGED srvFrame

\* m.setError(e): the box is written under its lock; the deferred recoverer
\* that follows finds recover() == nil
SrvSetError ==
  /\ SrvAlive /\ srv.wlPc = "setError"
  /\ srv' = [srv EXCEPT !.errRun = srv.wlResult, !.wlPc = "cancelRun"]
  /\ UNCHANGED srvFrame

\* m.recoverer after recover() # nil: os.Exit(2) unless ctxSvc is done
SrvRecoverer ==
  /\ SrvAlive /\ srv.wlPc = "recoverer"
  /\ srv' = IF srv.ctxSvc THEN [srv EXCEPT !.wlPc = "cancelRun"]
                          ELSE [srv EXCEPT !.wlPc = "exited", !.exited = TRUE]
  /\ UNCHANGED srvFrame

\* deferred cancelRun(): closes finishRun.Done()
SrvCancelRun ==
  /\ SrvAlive /\ srv.wlPc = "cancelRun"
  /\ srv' = [srv EXCEPT !.finishRun = TRUE, !.wlPc = "done"]
  /\ UNCHANGED srvFrame

\* the steps of Execute that need no request of the service manager's own
SrvExecStep ==
  \/ SrvExecSendStartPending \/ SrvExecLaunch \/ SrvExecSendRunning
  \/ SrvExecForceStop \/ SrvMgrConnect \/ SrvOpenService \/ SrvServiceControl
  \/ SrvExecRecvStop \/ SrvExecEcho \/ SrvExecSendStopPending
  \/ SrvExecCancel \/ SrvExecWaitFinish \/ SrvExecWaitTimeout

SrvWlDeferred == SrvSetError \/ SrvRecoverer \/ SrvCancelRun

SrvNext ==
  \/ SrvExecStep \/ SrvExecRecv
  \/ SrvWorkloadReturn \/ SrvWorkloadPanic \/ SrvWlDeferred
  \/ SrvTick

\* ------------------------------------------------------- specification
ExecStep ==
  \/ ExecSendStartPending \/ ExecLaunch \/ ExecSendRunning \/ ExecFinishRun
  \/ ExecEcho \/ ExecSendStopPending \/ ExecCancel \/ ExecWaitFinish
  \/ ExecWaitTimeout

RunStep ==
  \/ WinsvcInit \/ RunStart \/ SvcRunReturn \/ RunLaunch \/ RunSelectSig
  \/ RunCancel \/ RunSelectFinish \/ RunWaitFinish \/ RunWaitTimeout
  \/ getError \/ getErrorRUnlock

WlDeferred == setError \/ setErrorUnlock \/ recoverer \/ cancelRun

\* the steps of a lifecycle operation once it has been called
AdmStep ==
  \/ ExecPath \/ MgrConnect \/ OpenService \/ CreateService
  \/ setRestartOnFailure \/ ServiceDelete \/ ServiceStart \/ ServiceControl
  \/ StopWaitStopped \/ StopWaitQuery \/ StopWaitTimeout

Next ==
  \/ WinsvcInit \/ RunNotInit \/ RunStart
  \/ SvcRunFail \/ SvcRunExecute \/ SvcRunReturn
  \/ RunLaunch \/ Signal \/ RunSelectSig \/ RunCancel \/ RunSelectFinish
  \/ RunWaitFinish \/ RunWaitTimeout \/ getError \/ getErrorRUnlock
  \/ ExecSendStartPending \/ ExecLaunch \/ ExecSendRunning \/ ExecFinishRun
  \/ ExecRecv \/ ExecEcho \/ ExecSendStopPending \/ ExecCancel
  \/ ExecWaitFinish \/ ExecWaitTimeout
  \/ WorkloadReturn \/ WorkloadPanic \/ setError \/ setErrorUnlock
  \/ recoverer \/ cancelRun
  \/ Tick
  \/ OptNext
  \/ AdmNext
  \/ SrvNext

Spec == Init /\ [][Next]_vars

\* The Go scheduler runs every runnable goroutine and a timer that is armed
\* fires: the steps of Execute, run and the deferred calls of the workload
\* goroutine are taken when they stay enabled, and so are the steps of a
\* lifecycle operation and the ticks of its ticker.  Nothing forces the
\* workload to end, the host to send a request, the OS to send a signal or
\* the service to reach the Stopped state.
FairSpec ==
  /\ Spec
  /\ WF_vars(ExecStep \/ SrvExecStep)
  /\ WF_vars(RunStep)
  /\ WF_vars(WlDeferred \/ SrvWlDeferred)
  /\ WF_vars(Tick \/ SrvTick)
  /\ WF_vars(AdmStep)
  /\ WF_vars(PollTime)

TypeOK ==
  /\ interactive \in BOOLEAN
  /\ timeStopDefault \in 0..MaxTimeout
  /\ TimeoutStop \in 0..MaxTimeout
  /\ errRun \in {Nil, errWorkload}
  /\ rwMutex.w \in BOOLEAN /\ rwMutex.r \in 0..1
  /\ timer \in 0..MaxTimeout
  /\ nReq \in 0..MaxRequests
  /\ procExit \in {NoExit, Exit(2)}
  /\ registry \in RegistryValues
  /\ config.TimeoutStop \in 0..MaxTimeout
  /\ adm.svcState \in ScmStates
  /\ adm.status \in ScmStates \cup {None}
  /\ adm.elapsed \in 0..StopDeadline

\* =================================================================
\* Properties
\* =================================================================
LastStatus == changes[Len(changes)]

HasReport(st) == \E i \in 1..Len(changes) : changes[i].State = st

\* C1: in managed mode the first report is StartPending, the workload is
\* launched only after it, the second report is Running with accepted
\* commands exactly {Stop, Shutdown} and is sent after the launch, and no
\* control request is consumed before both reports have been sent.
C1_StartSequence ==
  ~interactive =>
    /\ wlPc # "notStarted" =>
         /\ Len(changes) >= 1
         /\ changes[1] = Status("StartPending", {})
    /\ Len(changes) >= 2 =>
         /\ wlPc # "notStarted"
         /\ changes[1] = Status("StartPending", {})
         /\ changes[2] = Status("Running", {"Stop", "Shutdown"})
    /\ (c.Cmd # None \/ nReq > 0 \/ stopConsumed) => Len(changes) >= 2

C1_Witness ==
  /\ ~interactive
  /\ c.Cmd = "Interrogate"
  /\ Len(changes) = 2
  /\ wlPc = "running"

\* C2: Execute reports StopPending before it triggers the cancellation
\* token, and it is in the grace-period wait (the timer armed) only after
\* the token has been triggered.
C2_StopOrder ==
  ~interactive =>
    /\ ctxSvc => HasReport("StopPending")
    /\ execPc = "cancel" => LastStatus.State = "StopPending" /\ ~ctxSvc
    /\ execPc = "wait" => ctxSvc
    /\ timer > 0 => ctxSvc

C2_Witness ==
  /\ ~interactive
  /\ execPc = "wait"
  /\ ctxSvc
  /\ timer > 0
  /\ c.Cmd = "Shutdown"

\* C3: after a Stop or Shutdown request has been consumed Execute returns
\* while the workload is still running: the wait never lasts longer than
\* TimeoutStop, the return value is (false, 0), and the expiry of the timer
\* leaves the process and the workload alone.
C3_BoundedStop ==
  /\ [](~interactive =>
          /\ timer <= TimeoutStop
          /\ (stopConsumed /\ execPc = "returned") => execRet = <<FALSE, 0>>
          /\ timedOut =>
               /\ Alive
               /\ timer = TimeoutStop
               /\ execPc = "returned"
               /\ execRet = <<FALSE, 0>>)
  /\ [][(execPc = "wait" /\ timedOut') => wlPc' = wlPc]_vars
  /\ ((~interactive /\ stopConsumed) ~> (execPc = "returned" \/ wlPc # "running"))

C3_Witness ==
  /\ ~interactive
  /\ stopConsumed
  /\ timedOut
  /\ wlPc = "running"
  /\ execPc = "returned"
  /\ execRet = <<FALSE, 0>>

\* C4: when Execute returns without having consumed a Stop or Shutdown
\* request (the completion signal was seen in the main loop) it returns
\* (true, 1), whatever the workload returned.
C4_EarlyExitAbnormal ==
  (~interactive /\ execPc = "returned" /\ ~stopConsumed) =>
     /\ execRet = <<TRUE, 1>>
     /\ finishRun

C4_Witness ==
  /\ ~interactive
  /\ execPc = "returned"
  /\ ~stopConsumed
  /\ wlResult = Nil
  /\ errRun = Nil

PanicAfterCancel == wlResult = "panic" /\ wlCtxAtEnd

\* C6: a panic of the workload after the cancellation token has been
\* triggered does not end the process, the completion signal fires, and
\* Execute returns (false, 0).
C6_PanicAfterCancelBenign ==
  /\ [](PanicAfterCancel =>
          /\ Alive
          /\ wlPc # "exited"
          /\ (~interactive /\ execPc = "returned") => execRet = <<FALSE, 0>>)
  /\ (PanicAfterCancel ~> finishRun)
  /\ ((PanicAfterCancel /\ ~interactive) ~> execPc = "returned")

C6_Witness ==
  /\ ~interactive
  /\ PanicAfterCancel
  /\ finishRun
  /\ execPc = "returned"
  /\ execRet = <<FALSE, 0>>

\* C7: once a Stop or Shutdown request has been consumed, the failure exit
\* (os.Exit(2)) is never taken.
C7_NoExitOnceStopConsumed ==
  stopConsumed => ~procExit.exited

\* the workload returned nil when the cancellation token was triggered
ReturnedNilAfterCancel == wlResult = Nil /\ wlCtxAtEnd

\* C8: a workload that returns nil after its context has been cancelled
\* leaves nil in the outcome box, Execute returns (false, 0), run returns
\* nil, and the process does not exit through the crash path.
C8_GracefulNil ==
  ReturnedNilAfterCancel =>
    /\ Alive
    /\ errRun = Nil
    /\ execPc = "returned" => execRet = <<FALSE, 0>>
    /\ runPc = "returned" => runRet = Nil

C8_Witness ==
  /\ ~interactive
  /\ ReturnedNilAfterCancel
  /\ wlPc = "done"
  /\ ~timedOut
  /\ runPc = "returned"
  /\ runRet = Nil
  /\ execRet = <<FALSE, 0>>

\* C9: the states of the reports Execute sends start with StartPending and
\* each report carries the state of the report before it or the next state
\* in the order StartPending, Running, StopPending, Stopped.
C9_MonotonicReports ==
  /\ Len(changes) >= 1 => changes[1].State = "StartPending"
  /\ \A i \in 1..(Len(changes) - 1) :
       \/ StateRank(changes[i + 1].State) = StateRank(changes[i].State)
       \/ StateRank(changes[i + 1].State) = StateRank(changes[i].State) + 1

C9_Witness ==
  /\ Len(changes) >= 4
  /\ changes[3].State = "Running"
  /\ LastStatus.State = "StopPending"

C11_InterrogateEchoes ==
  /\ [][(execPc = "loop" /\ execPc' = "echo") =>
          /\ c'.Cmd = "Interrogate"
          /\ c'.CurrentStatus = LastStatus
          /\ UNCHANGED <<changes, ctxSvc, cancels, launches, stopConsumed,
                         execRet, errRun, finishRun>>]_vars
  /\ [][(execPc = "echo" /\ execPc' # "echo") =>
          /\ LastStatus = Status("Running", {"Stop", "Shutdown"})
          /\ changes' = Append(changes, LastStatus)
          /\ execPc' = "loop"
          /\ UNCHANGED <<ctxSvc, cancels, launches, stopConsumed, execRet,
                         errRun, finishRun>>]_vars
  /\ [](\A i \in 3..Len(changes) :
          changes[i].State # "StopPending" => changes[i] = changes[2])

C11_Witness ==
  /\ Len(changes) = 4
  /\ changes[3] = changes[2]
  /\ changes[4] = changes[2]
  /\ execPc = "loop"
  /\ ~ctxSvc
  /\ ~stopConsumed

\* C12: when the workload goroutine has ended, the outcome box has been
\* written exactly once and the completion signal has been raised exactly
\* once, and after a panic the box holds a crash outcome.
C12_OneWriteOneSignal ==
  /\ wlPc \in {"done", "exited"} =>
       /\ boxWrites = 1
       /\ finishCount = 1
       /\ finishRun
  /\ (wlResult = "panic" /\ wlPc \in {"done", "exited"}) => errRun # Nil

\* C15: run reads the outcome box only after the completion signal of the
\* workload it launched has fired.
C15_ReadAfterCompletion ==
  (runPc = "returned" /\ launches > 0) => ~earlyRead

\* the interrupt signal has been taken from channel sig
SigTaken == sigSent /\ sig = 0

\* C16: in interactive mode a signal taken from sig is followed by the
\* triggering of the cancellation token, and once the workload has then
\* completed run can leave the second select at once and does return.
C16_InterruptCancels ==
  /\ [][(interactive /\ runPc = "select1" /\ runPc' = "cancel") =>
          (sig > 0 /\ sig' = sig - 1)]_vars
  /\ [][(interactive /\ runPc = "cancel" /\ runPc' # "cancel") =>
          (ctxSvc' /\ runPc' = "select2" /\ timer' = 0)]_vars
  /\ [](interactive /\ SigTaken /\ runPc # "cancel" => ctxSvc /\ cancels = 1)
  /\ [](interactive /\ runPc = "select2" /\ ctxSvc /\ finishRun =>
          ENABLED RunWaitFinish)
  /\ ((interactive /\ ctxSvc /\ finishRun) ~> runPc = "returned")

C16_Witness ==
  /\ interactive
  /\ SigTaken
  /\ ctxSvc
  /\ wlCtxAtEnd
  /\ finishRun
  /\ runPc = "returned"
  /\ ~timedOut
  /\ timer < TimeoutStop

\* C17: in interactive mode, without a signal the cancellation token is
\* never triggered, and a run that left the first select by the completion
\* branch can leave the second select at once and returns.
C17_ReturnsOnCompletion ==
  /\ [](interactive /\ ~sigSent => ~ctxSvc /\ cancels = 0)
  /\ [][(interactive /\ runPc = "select1" /\ runPc' = "select2") =>
          (finishRun /\ UNCHANGED <<ctxSvc, cancels>>)]_vars
  /\ [](interactive /\ runPc = "select2" /\ ~ctxSvc =>
          finishRun /\ ENABLED RunWaitFinish)
  /\ ((interactive /\ runPc = "select2" /\ ~ctxSvc) ~> runPc = "returned")

C17_Witness ==
  /\ interactive
  /\ ~sigSent
  /\ ~ctxSvc
  /\ finishRun
  /\ runPc = "returned"
  /\ ~timedOut
  /\ timer = 0

\* C18: in interactive mode, once the signal or the completion of the
\* workload is there, run returns (unless the process has exited), and the
\* cancellation token is triggered exactly when the signal branch was taken.
C18_InteractiveRace ==
  /\ []((interactive /\ runPc \in {"select2", "getError"}) =>
          (ctxSvc <=> SigTaken))
  /\ []((interactive /\ svcMan /\ runPc = "returned") =>
          (ctxSvc <=> SigTaken))
  /\ ((interactive /\ runPc = "select1" /\ (sig > 0 \/ finishRun)) ~>
        (runPc = "returned" \/ ~Alive))

C18_Witness ==
  /\ interactive
  /\ sigSent
  /\ sig = 1
  /\ finishRun
  /\ ~ctxSvc
  /\ runPc = "returned"

\* C19: when run reads the box after the completion signal, it returns the
\* error the workload returned, in both modes; in interactive mode it
\* returns nil when the workload returned nil.
C19_ErrorSurfaced ==
  (runPc = "returned" /\ svcMan /\ launches > 0 /\ ~earlyRead) =>
    /\ wlResult = errWorkload => runRet = errWorkload
    /\ (wlResult = Nil /\ interactive) => runRet = Nil

C19_Witness ==
  /\ ~interactive
  /\ runPc = "returned"
  /\ ~earlyRead
  /\ wlResult = errWorkload
  /\ runRet = errWorkload
  /\ execRet = <<FALSE, 0>>

\* C20: the cancellation token of a manager is triggered at most once, only
\* by Execute (managed mode) or run (interactive mode) at their call of
\* cancelSvc, and once triggered it stays triggered for as long as that
\* manager is the current one (a later call of Init builds a new manager with
\* a token of its own).
C20_CancelOnce ==
  /\ [](cancels <= 1)
  /\ [](ctxSvc <=> cancels = 1)
  /\ [][inits' = inits => (ctxSvc => ctxSvc')]_vars
  /\ [][(inits' = inits /\ ctxSvc' # ctxSvc) =>
          ((~interactive /\ execPc = "cancel") \/
           (interactive /\ runPc = "cancel"))]_vars

C20_Witness ==
  /\ ~interactive
  /\ ctxSvc
  /\ cancels = 1
  /\ execPc = "returned"
  /\ runPc = "returned"


\* C13: calling the start operation twice, one call after the other or both
\* at once, launches the workload exactly once: no second call of Init and no
\* second caller of Run causes a second execution of the workload.
C13_StartOnce ==
  /\ launches <= 1
  /\ opt.launches <= 1

\* C14: in managed mode a workload that ends before any stop request is
\* reported as a graceful stop (Execute returns exit code 0 and nothing
\* panics) when DisablePanic is set, and as an abnormal exit when it is not
\* set or cannot be set.
C14_EarlyExitPolicy ==
  /\ ( /\ variant = "option" /\ ~interactive
       /\ opt.disablePanic /\ ~opt.stopConsumed
       /\ opt.pc \in {"execReturned", "returned"} )
       => opt.execRet = <<FALSE, 0>> /\ ~opt.panicked
  /\ ( /\ variant = "option" /\ ~interactive
       /\ ~opt.disablePanic /\ ~opt.stopConsumed )
       => opt.execRet = NoResult
  /\ ( /\ variant = "init" /\ ~interactive
       /\ execPc = "returned" /\ ~stopConsumed )
       => execRet = <<TRUE, 1>>

\* C21: Stop and Shutdown are handled identically.  Whenever Execute can
\* take a Stop request it can take a Shutdown request and the reverse; taking
\* either leads to the StopPending report and changes nothing else; and the
\* reports sent, the triggering of the token, the bounded wait and the value
\* Execute returns afterwards are the same whichever of the two was taken.
C21_StopShutdownSame ==
  /\ [](ENABLED (ExecRecv /\ c'.Cmd = "Stop")
          <=> ENABLED (ExecRecv /\ c'.Cmd = "Shutdown"))
  /\ [][(execPc = "loop" /\ stopConsumed') =>
          /\ c'.Cmd \in {"Stop", "Shutdown"}
          /\ execPc' = "sendStopPending"
          /\ UNCHANGED <<changes, ctxSvc, cancels, timer, timedOut, execRet,
                         nReq, launches, finishRun, errRun>>]_vars
  /\ [](stopConsumed => c.Cmd \in {"Stop", "Shutdown"})
  /\ [](\A k \in {"Stop", "Shutdown"} :
          (stopConsumed /\ c.Cmd = k) =>
            /\ execPc \in {"sendStopPending", "cancel", "wait", "returned"}
            /\ execPc = "sendStopPending" =>
                 LastStatus.State = "Running" /\ ~ctxSvc
            /\ execPc = "cancel" =>
                 LastStatus = Status("StopPending", {}) /\ ~ctxSvc
            /\ execPc = "wait" =>
                 LastStatus = Status("StopPending", {}) /\ ctxSvc
            /\ execPc = "returned" =>
                 /\ LastStatus = Status("StopPending", {})
                 /\ ctxSvc
                 /\ finishRun \/ timedOut
                 /\ execRet = <<FALSE, 0>>)

C21_Witness ==
  /\ c.Cmd = "Shutdown"
  /\ stopConsumed
  /\ execPc = "returned"
  /\ execRet = <<FALSE, 0>>
  /\ LastStatus = Status("StopPending", {})
  /\ ctxSvc

\* C22: in the option-based variant in interactive mode, run leaves its first
\* select through the completion branch only when the workload has ended; it
\* then panics with "exit from run function" when DisablePanic is not set and
\* returns normally when it is set, and in both cases the cancellation token
\* is not triggered and the grace-period timer is never armed.  The panic
\* reaches the caller of Run.
C22_EarlyExitInteractive ==
  /\ [][(variant = "option" /\ interactive /\ opt.pc = "select1"
           /\ opt'.pc \notin {"select1", "cancel"}) =>
          /\ opt.finishRun
          /\ IF opt.disablePanic
               THEN /\ opt'.pc = "returned"
                    /\ ~opt'.panicked
                    /\ opt'.panicValue = None
               ELSE /\ opt'.pc = "panicked"
                    /\ opt'.panicked
                    /\ opt'.panicValue = "exit from run function"
          /\ ~opt'.ctxSvc
          /\ opt'.timer = 0]_vars
  /\ []((variant = "option" /\ interactive /\ ~opt.sigSent
           /\ opt.pc \in {"returned", "panicked"}) =>
          /\ opt.finishRun
          /\ ~opt.ctxSvc
          /\ opt.timer = 0
          /\ opt.pc = "panicked" <=> ~opt.disablePanic
          /\ opt.panicked <=> ~opt.disablePanic)
  /\ [](\A i \in Callers :
          (variant = "option" /\ interactive) =>
            /\ opt.callers[i] = "panicked" =>
                 ~opt.disablePanic /\ opt.panicValue = "exit from run function"
            /\ (opt.callers[i] = "returned" /\ opt.starts = 1
                  /\ opt.runOnce = "done" /\ ~opt.sigSent) =>
                 opt.disablePanic \/ opt.pc = "panicked")

C22_Witness ==
  /\ variant = "option" /\ interactive
  /\ ~opt.disablePanic
  /\ opt.wlPc = "done"
  /\ ~opt.sigSent
  /\ ~opt.ctxSvc
  /\ opt.timer = 0
  /\ opt.panicValue = "exit from run function"
  /\ \E i \in Callers : opt.callers[i] = "panicked"

\* C28: within one managed run the workload is launched exactly once: the
\* only step that launches it is the call of runFuncWithNotify at the start
\* of Execute, taken when nothing has been launched, and no request and no
\* outcome of the workload brings Execute back to it.
C28_LaunchOnce ==
  /\ [](~interactive => launches <= 1)
  /\ [](~interactive => (launches = 1 <=> wlPc # "notStarted"))
  /\ [](~interactive /\ execPc \in {"sendRunning", "loop", "echo",
                                    "sendStopPending", "cancel", "wait",
                                    "returned"} => launches = 1)
  /\ [][(~interactive /\ launches' # launches) =>
          /\ execPc = "launch"
          /\ launches = 0
          /\ launches' = 1
          /\ c.Cmd = None]_vars

C28_Witness ==
  /\ ~interactive
  /\ launches = 1
  /\ nReq = MaxRequests
  /\ stopConsumed
  /\ wlPc = "done"
  /\ execPc = "returned"

\* C29: when the workload returns, the completion signal is raised only
\* after the value it returned has been stored in the outcome box, so
\* whoever sees the signal finds that value in the box, and a call of getError
\* made after the signal returns it.
C29_StoreBeforeSignal ==
  /\ []((finishRun /\ wlResult \in {Nil, errWorkload}) =>
          errRun = wlResult /\ boxWrites = 1)
  /\ [][(~finishRun /\ finishRun' /\ wlResult \in {Nil, errWorkload}) =>
          /\ errRun = wlResult
          /\ errRun' = errRun
          /\ boxWrites = 1]_vars
  /\ []((interactive /\ runPc = "returned" /\ svcMan /\ ~earlyRead
           /\ wlResult \in {Nil, errWorkload}) => runRet = wlResult)

C29_Witness ==
  /\ interactive
  /\ finishRun
  /\ wlResult = errWorkload
  /\ errRun = errWorkload
  /\ runPc = "returned"
  /\ runRet = errWorkload

\* C30: after Execute has consumed a Stop or Shutdown request it consumes no
\* further request; the one report it still sends is the StopPending report
\* of that request, and from the moment the token is triggered until Execute
\* returns no report is sent and no request is taken, Interrogate included.
C30_NoRequestAfterStop ==
  /\ [][stopConsumed => (stopConsumed' /\ c' = c /\ nReq' = nReq)]_vars
  /\ [](stopConsumed => ~ENABLED ExecRecv /\ ~ENABLED ExecEcho)
  /\ [][(stopConsumed /\ changes' # changes) =>
          /\ execPc = "sendStopPending"
          /\ changes' = Append(changes, Status("StopPending", {}))]_vars
  /\ [][(execPc \in {"cancel", "wait", "returned"}) => changes' = changes]_vars
  /\ []((stopConsumed /\ execPc \in {"cancel", "wait", "returned"}) =>
          /\ LastStatus = Status("StopPending", {})
          /\ \A i \in 1..(Len(changes) - 1) :
               changes[i].State # "StopPending")

C30_Witness ==
  /\ stopConsumed
  /\ execPc = "wait"
  /\ timer > 0
  /\ ~finishRun
  /\ nReq > 0
  /\ LastStatus = Status("StopPending", {})

\* the grace period the Config and the host default call for
GracePeriod ==
  IF config.TimeoutStop # 0 THEN config.TimeoutStop ELSE timeStopDefault

\* C26: the grace period of the manager is the TimeoutStop of the Config when
\* that is not zero and the host default otherwise; the host default is the
\* registry value, 20 s when the key or the value cannot be read or is not a
\* number; and the bounded waits of Execute and run expire at exactly that
\* period.
C26_GracePeriod ==
  /\ [](svcMan => TimeoutStop = GracePeriod)
  /\ []((svcMan /\ config.TimeoutStop # 0) =>
          TimeoutStop = config.TimeoutStop)
  /\ [](variant = "init" =>
          /\ (~registry.key \/ ~registry.found
                \/ registry.sv = <<"2", "0", "s">>) =>
               timeStopDefault * TickMs = 20000
          /\ \A n \in 1..MaxTimeout :
               (registry.found /\ registry.sv = FormatInt(n * TickMs)) =>
                 timeStopDefault * TickMs = n * TickMs)
  /\ [](timer <= TimeoutStop)
  /\ [](timedOut => timer = GracePeriod)
  /\ [][(~timedOut /\ timedOut') => timer = GracePeriod]_vars

C26_Witness ==
  /\ config.TimeoutStop = 1
  /\ timeStopDefault = 2
  /\ registry = NoRegistry
  /\ ~interactive
  /\ execPc = "returned"
  /\ timedOut
  /\ timer = 1

\* C23: restart issues Start only when the last state of the service that
\* stopWithWait has observed is Stopped.
C23_StartAfterStopped ==
  (variant = "admin" /\ adm.op = "restart" /\ adm.starts > 0) =>
    adm.startSeen = "Stopped"

C25_NotInitialised ==
  /\ []((variant = "admin" /\ ~adm.svcMan) =>
          /\ adm.pc \in {"idle", "returned"}
          /\ adm.pc = "returned" =>
               \E op \in Ops, scm \in ScmInit :
                 adm = [AdmStart(FALSE, 0, FALSE, scm[1], scm[2]) EXCEPT
                          !.op = op, !.ret = errSvcInit, !.pc = "returned"])
  /\ [][(variant = "admin" /\ ~adm.svcMan /\ adm' # adm) =>
          /\ adm'.ret = errSvcInit
          /\ adm'.scmCalls = 0
          /\ adm'.installed = adm.installed
          /\ adm'.svcState = adm.svcState]_vars
  /\ [][(variant = "init" /\ ~svcMan /\ runPc = "init" /\ ~svcMan') =>
          /\ runRet' = errSvcInit
          /\ runPc' = "returned"
          /\ UNCHANGED <<ctxSvc, finishRun, launches, wlPc, execPc, errRun,
                         errSvcRun, changes, cancels, inits>>]_vars
  /\ []((variant = "init" /\ ~svcMan /\ runPc = "returned") =>
          /\ runRet = errSvcInit
          /\ launches = 0
          /\ wlPc = "notStarted"
          /\ execPc = "idle"
          /\ ~ctxSvc)

C25_Witness ==
  /\ variant = "admin"
  /\ ~adm.svcMan
  /\ adm.op = "restart"
  /\ adm.installed /\ adm.svcState = "Running"
  /\ adm.pc = "returned"
  /\ adm.ret = errSvcInit
  /\ adm.scmCalls = 0

\* C27: called after Init, install finds the service installed: it creates
\* no service and changes no configuration, and it returns errExist unless a
\* call to the service manager fails.  uninstall finds no service: it deletes
\* nothing and returns errNotExist unless the connection to the service
\* manager fails.
C27_ExistErrors ==
  /\ []((variant = "admin" /\ adm.svcMan /\ adm.op = "install"
           /\ adm.installed /\ adm.creates = 0) =>
          /\ adm.configs = 0
          /\ adm.pc \notin {"setRestartOnFailure"}
          /\ (adm.pc = "returned" /\ ~adm.fault) => adm.ret = errExist
          /\ adm.pc = "returned" => adm.ret \in {errExist, errMgr})
  /\ [][(variant = "admin" /\ adm.svcMan /\ adm.op = "install"
           /\ adm.installed) =>
          /\ adm'.installed
          /\ adm'.creates = adm.creates
          /\ adm'.configs = adm.configs
             \/ (adm.pc = "setRestartOnFailure" /\ adm.creates = 1)
          /\ adm'.svcState = adm.svcState]_vars
  /\ []((variant = "admin" /\ adm.svcMan /\ adm.op = "uninstall"
           /\ ~adm.installed /\ adm.deletes = 0) =>
          /\ adm.pc # "delete"
          /\ (adm.pc = "returned" /\ ~adm.fault) => adm.ret = errNotExist
          /\ adm.pc = "returned" => adm.ret \in {errNotExist, errMgr})
  /\ [][(variant = "admin" /\ adm.svcMan /\ adm.op = "uninstall"
           /\ ~adm.installed) =>
          /\ ~adm'.installed
          /\ adm'.deletes = adm.deletes]_vars

C27_Witness ==
  /\ variant = "admin"
  /\ adm.op = "install"
  /\ adm.installed
  /\ adm.RestartOnFailure
  /\ adm.pc = "returned"
  /\ adm.ret = errExist
  /\ adm.creates = 0
  /\ adm.configs = 0

\* C31: in interactive mode, once run has taken the interrupt signal and
\* cancelled the context it returns, and the wait of the second select never
\* outlasts TimeoutStop, also when the workload never returns; a run that
\* left the second select by the timer while the workload was still running
\* leaves the goroutine as it is and the process alive, and returns nil, the
\* box being still empty.
C31_InterruptBounded ==
  /\ []((interactive /\ runPc = "select2") => timer <= TimeoutStop)
  /\ []((interactive /\ runPc = "select2" /\ timer = TimeoutStop) =>
          ENABLED RunWaitTimeout)
  /\ [][(interactive /\ runPc = "select2" /\ timedOut' /\ ~timedOut) =>
          (timer = TimeoutStop /\ wlVars' = wlVars /\ procExit' = procExit
             /\ finishRun' = finishRun /\ errRun' = errRun)]_vars
  /\ []((interactive /\ SigTaken /\ timedOut /\ runPc = "returned"
           /\ wlPc = "running") =>
          (runRet = Nil /\ errRun = Nil /\ boxWrites = 0 /\ ~finishRun
             /\ Alive))
  /\ ((interactive /\ SigTaken /\ runPc = "select2") ~> runPc = "returned")

C31_Witness ==
  /\ interactive
  /\ SigTaken
  /\ ctxSvc
  /\ timedOut
  /\ timer = TimeoutStop
  /\ TimeoutStop = MaxTimeout
  /\ runPc = "returned"
  /\ runRet = Nil
  /\ errRun = Nil
  /\ wlPc = "running"
  /\ Alive

\* positions at which the caller of run, Execute and the workload goroutine
\* wait for a channel or a timer
RunSuspended == runPc \in {"select1", "select2", "inSvcRun"}
ExecSuspended == execPc \in {"sendStartPending", "sendRunning", "loop", "echo",
                            "sendStopPending", "wait"}

\* C32: a read of the outcome box never overlaps a write of it: the writer
\* and a reader are never inside the lock together, the box changes only in
\* the step that takes the write lock with no reader inside, and a read
\* happens only with no writer inside; the lock is held by the goroutine
\* only between Lock and its deferred Unlock and by the caller of run only
\* between RLock and its deferred RUnlock, positions at which the holder
\* waits for no channel and no timer and can always go on to release it.
C32_BoxExclusive ==
  /\ [](~(rwMutex.w /\ rwMutex.r > 0))
  /\ [][(inits' = inits /\ errRun' # errRun) =>
          (~rwMutex.w /\ rwMutex.r = 0 /\ rwMutex'.w /\ rwMutex'.r = 0)]_vars
  /\ [][(inits' = inits /\ runRet' # runRet /\ svcMan) =>
          (~rwMutex.w /\ ~rwMutex'.w /\ rwMutex'.r = rwMutex.r + 1)]_vars
  /\ [](rwMutex.w <=> wlPc = "setErrorUnlock")
  /\ [](rwMutex.r > 0 <=> runPc = "getErrorRUnlock")
  /\ [](rwMutex.w => (wlPc # "running" /\ ENABLED setErrorUnlock))
  /\ [](rwMutex.r > 0 => (~RunSuspended /\ ENABLED getErrorRUnlock))
  /\ []((RunSuspended \/ ExecSuspended) => rwMutex.r = 0)

C32_Witness ==
  /\ rwMutex.w
  /\ rwMutex.r = 0
  /\ wlPc = "setErrorUnlock"
  /\ runPc = "getError"
  /\ ~ENABLED getError
  /\ interactive
  /\ timedOut

\* C33 as stated: in the Servicer variant, once the workload has ended with
\* no Stop or Shutdown taken by Execute, Execute calls sendCmdStop, and it
\* never calls it twice.
C33_StopExactlyOnce ==
  /\ [](srv.sendCmdStops <= 1)
  /\ ((variant = "servicer" /\ srv.finishRun /\ ~srv.stopConsumed) ~>
        srv.sendCmdStops = 1)

\* C33 amended: in the Servicer variant the completion branch of Execute is
\* taken only while forceStop is armed, finishRun is closed and no Stop or Shutdown
\* has been taken; it disarms forceStop, which stays nil, and enters
\* sendCmdStop, so that sendCmdStop is called once and Control(svc.Stop) is
\* issued at most once; with forceStop nil the branch is not ready again and
\* Execute, back in the loop, waits for r; and an armed branch with the
\* workload ended is ready and is taken unless a request is taken first.
C33_StopOnce ==
  /\ [](srv.sendCmdStops <= 1 /\ srv.controls <= srv.sendCmdStops)
  /\ [][(srv.pc = "loop" /\ srv'.pc = "connect") =>
          /\ srv.forceStop /\ srv.finishRun /\ ~srv.stopConsumed
          /\ ~srv'.forceStop
          /\ srv.sendCmdStops = 0 /\ srv'.sendCmdStops = 1]_vars
  /\ [][srv'.sendCmdStops # srv.sendCmdStops =>
          (srv.pc = "loop" /\ srv'.pc = "connect")]_vars
  /\ [][(srv.pc # "sendRunning" /\ ~srv.forceStop) => ~srv'.forceStop]_vars
  /\ []((variant = "servicer" /\ srv.pc \notin {"sendStartPending", "launch",
                                                 "sendRunning"}
           /\ ~srv.forceStop) =>
          (srv.sendCmdStops = 1 /\ ~ENABLED SrvExecForceStop))
  /\ []((variant = "servicer" /\ srv.pc = "loop" /\ ~srv.forceStop
           /\ ~srv.queued) => ~ENABLED SrvExecStep)
  /\ []((SrvAlive /\ srv.pc = "loop" /\ srv.forceStop /\ srv.finishRun) =>
          ENABLED SrvExecForceStop)
  /\ []((SrvAlive /\ srv.pc \in {"connect", "openService", "control"}) =>
          (~srv.forceStop /\ ENABLED SrvExecStep))
  /\ ((srv.pc = "loop" /\ srv.forceStop /\ srv.finishRun) ~>
        (srv.sendCmdStops = 1 \/ srv.stopConsumed))

C33_Witness ==
  /\ variant = "servicer"
  /\ srv.pc = "returned"
  /\ srv.finishRun
  /\ ~srv.forceStop
  /\ srv.ctxSvc
  /\ srv.sendCmdStops = 1
  /\ srv.controls = 1
  /\ srv.fault = None
  /\ srv.nReq > 0
  /\ srv.execRet = <<FALSE, 0>>

\* C34: in the Servicer variant, once the workload has ended with no Stop or
\* Shutdown taken by Execute, Execute eventually returns (false, 0).
C34_ExecuteReturns ==
  (variant = "servicer" /\ srv.finishRun /\ ~srv.stopConsumed) ~>
    (srv.pc = "returned" /\ srv.execRet = <<FALSE, 0>>)

====
